---- MODULE Spec2Model ----
(***************************************************************************)
(* A model of the ReAct control loop of the chatbot: the two Loop Drivers  *)
(* (IntelligentReActAgent.run and the CDK ReActAgent.run), the Safety      *)
(* Controller, the Orchestration, Action and Observation steps and the     *)
(* Search Client.                                                          *)
(*                                                                         *)
(* Text that the program inspects character by character (the user query,  *)
(* search keywords) is a sequence of one-character strings; a Hangul       *)
(* syllable, and a character that has no escape in a TLA+ string, is       *)
(* written "uXXXX" with its code point.  Text that the program             *)
(* inspects only for `[n]` markers, a references header and emptiness      *)
(* (model replies, answers) is a sequence of tokens, see Tok below.        *)
(* Scores are in hundredths (0.55 is 55).                                  *)
(***************************************************************************)
EXTENDS Naturals, Integers, Sequences, FiniteSets, TLC

(***************************************************************************)
(* Sequences and strings                                                   *)
(***************************************************************************)
Range(s) == { s[i] : i \in 1..Len(s) }

Min(a, b) == IF a <= b THEN a ELSE b

\* s[:n] of Python
Take(s, n) == SubSeq(s, 1, Min(n, Len(s)))

Last(s) == s[Len(s)]

RECURSIVE SumSeq(_)
SumSeq(s) == IF s = <<>> THEN 0 ELSE Head(s) + SumSeq(Tail(s))

\* [x for x in s if P(x)]
RECURSIVE SelectSeqIdx(_, _, _)
SelectSeqIdx(s, keep, i) ==
    IF i > Len(s) THEN <<>>
    ELSE (IF i \in keep THEN <<s[i]>> ELSE <<>>) \o SelectSeqIdx(s, keep, i + 1)

\* sub in s (Python substring test)
Contains(sub, s) ==
    \/ sub = <<>>
    \/ \E i \in 1..(Len(s) - Len(sub) + 1) : SubSeq(s, i, i + Len(sub) - 1) = sub

\* s.startswith(p)
StartsWith(s, p) == Len(p) <= Len(s) /\ SubSeq(s, 1, Len(p)) = p

\* the lower case of each capital letter
UpperToLower ==
    LET upper == << "A", "B", "C", "D", "E", "F", "G", "H", "I", "J", "K", "L", "M",
                    "N", "O", "P", "Q", "R", "S", "T", "U", "V", "W", "X", "Y", "Z" >>
        lower == << "a", "b", "c", "d", "e", "f", "g", "h", "i", "j", "k", "l", "m",
                    "n", "o", "p", "q", "r", "s", "t", "u", "v", "w", "x", "y", "z" >>
    IN  [c \in Range(upper) |-> lower[CHOOSE i \in 1..Len(upper) : upper[i] = c]]

\* str.lower(): the texts are of ASCII characters and Hangul syllables, of which
\* only the letters A-Z have a lower case
Lower(s) == [i \in 1..Len(s) |-> IF s[i] \in DOMAIN UpperToLower THEN UpperToLower[s[i]] ELSE s[i]]

\* the characters str.strip() removes: those for which str.isspace() is true
Whitespace ==
    { " ", "\t", "\n", "\r", "\f", "u000B", "u001C", "u001D", "u001E", "u001F", "u0085",
      "u00A0", "u1680", "u2000", "u2001", "u2002", "u2003", "u2004", "u2005", "u2006",
      "u2007", "u2008", "u2009", "u200A", "u2028", "u2029", "u202F", "u205F", "u3000" }

RECURSIVE LStrip(_)
LStrip(s) == IF s # <<>> /\ Head(s) \in Whitespace THEN LStrip(Tail(s)) ELSE s

RECURSIVE RStrip(_)
RStrip(s) == IF s # <<>> /\ Last(s) \in Whitespace THEN RStrip(SubSeq(s, 1, Len(s) - 1)) ELSE s

\* str.strip()
Strip(s) == RStrip(LStrip(s))

continuation_patterns ==
    << <<"uB2E4", "uC74C", "uC740">>,
       <<"uADF8", "uB7FC">>,
       <<"uADF8", "uB7EC", "uBA74">>,
       <<"uB610", "uB294">>,
       <<"uC544", "uB2C8", "uBA74">>,
       <<"uADF8", "uB9AC", "uACE0">>,
       <<"uADF8", "uB7F0", "uB370">>,
       <<"uADF8", "uB798", "uC11C">>,
       <<"uADF8", "uB807", "uB2E4", "uBA74">>,
       <<"uADF8", "uB7FC", "uC5D0", "uB3C4">>,
       <<"uD558", "uC9C0", "uB9CC">>,
       <<"uADF8", "uB7F0", "uB370", "uB3C4">>,
       <<"uADF8", "uB798", "uB3C4">>,
       <<"uACC4", "uC18D">>,
       <<"uC774", "uC5B4", "uC11C">>,
       <<"uCD94", "uAC00", "uB85C">>,
       <<"uB354">>,
       <<"uB610">>,
       <<"uADF8", " ", "uC678", "uC5D0">>,
       <<"uB2E4", "uB978">>,
       <<"n", "e", "x", "t">>,
       <<"t", "h", "e", "n">>,
       <<"a", "l", "s", "o">>,
       <<"m", "o", "r", "e">>,
       <<"c", "o", "n", "t", "i", "n", "u", "e">>,
       <<"w", "h", "a", "t", " ", "a", "b", "o", "u", "t">>,
       <<"h", "o", "w", " ", "a", "b", "o", "u", "t">> >>

question_starters ==
    << <<"uBB50">>,
       <<"uBB34", "uC5C7">>,
       <<"uC5B4", "uB5A4">>,
       <<"uC5B4", "uB5BB", "uAC8C">>,
       <<"uC65C">>,
       <<"uC5B8", "uC81C">>,
       <<"uC5B4", "uB514">>,
       <<"uB204", "uAC00">>,
       <<"uC5BC", "uB9C8">> >>

orchestration_greetings ==
    << <<"uC548", "uB155">>,
       <<"h", "e", "l", "l", "o">>,
       <<"h", "i">>,
       <<"uC548", "uB155", "uD558", "uC138", "uC694">>,
       <<"uC548", "uB155", "uD558", "uC2ED", "uB2C8", "uAE4C">> >>

observation_greetings ==
    << <<"uC548", "uB155">>,
       <<"h", "e", "l", "l", "o">>,
       <<"h", "i">>,
       <<"h", "e", "y">>,
       <<"uC548", "uB155", "uD558", "uC138", "uC694">>,
       <<"uC548", "uB155", "uD558", "uC2ED", "uB2C8", "uAE4C">>,
       <<"uC88B", "uC740", " ", "uC544", "uCE68">>,
       <<"uC88B", "uC740", " ", "uC624", "uD6C4">>,
       <<"uC88B", "uC740", " ", "uC800", "uB141">>,
       <<"uBC18", "uAC11", "uC2B5", "uB2C8", "uB2E4">> >>

greeting_response_keys ==
    << <<"uC548", "uB155">>,
       <<"h", "e", "l", "l", "o">>,
       <<"h", "i">>,
       <<"uC548", "uB155", "uD558", "uC138", "uC694">>,
       <<"uC548", "uB155", "uD558", "uC2ED", "uB2C8", "uAE4C">> >>

synonym_map ==
    << [word |-> <<"uADDC", "uC815">>,
        synonyms |-> << <<"uC815", "uCC45">>, <<"uC9C0", "uCE68">>, <<"uAE30", "uC900">>, <<"uC808", "uCC28">> >>],
       [word |-> <<"uC9C0", "uC6D0">>,
        synonyms |-> << <<"uD61C", "uD0DD">>, <<"uBCF4", "uC870">>, <<"uB3C4", "uC6C0">>, <<"uC81C", "uACF5">> >>],
       [word |-> <<"uC804", "uACB0">>,
        synonyms |-> << <<"uC2B9", "uC778">>, <<"uACB0", "uC7AC">>, <<"uD5C8", "uAC00">>, <<"uC778", "uAC00">> >>],
       [word |-> <<"uCE58", "uB8CC">>,
        synonyms |-> << <<"uC758", "uB8CC">>, <<"uC9C4", "uB8CC">>, <<"uCC98", "uCE58">>, <<"uCF00", "uC5B4">> >>],
       [word |-> <<"uC2DC", "uC220">>,
        synonyms |-> << <<"uC218", "uC220">>, <<"uCC98", "uCE58">>, <<"uC758", "uB8CC", "uD589", "uC704">>, <<"uC9C4", "uB8CC">> >>],
       [word |-> <<"uBCF5", "uB9AC", "uD6C4", "uC0DD">>,
        synonyms |-> << <<"uC9C1", "uC6D0", "uD61C", "uD0DD">>, <<"uADFC", "uB85C", "uC790", "uD61C", "uD0DD">>, <<"uBCF5", "uC9C0">>, <<"uD6C4", "uC0DD">> >>],
       [word |-> <<"uD68C", "uC0AC">>,
        synonyms |-> << <<"uAE30", "uC5C5">>, <<"uC870", "uC9C1">>, <<"uC9C1", "uC7A5">>, <<"uC0AC", "uC5C5", "uC7A5">> >>] >>

Q_hello == <<"h", "e", "l", "l", "o">>
Q_then == <<"t", "h", "e", "n", "?">>
Q_which == <<"w", "h", "i", "c", "h", " ", "r", "u", "l", "e", " ", "a", "p", "p", "l", "i", "e", "s", " ", "t", "o", "d", "a", "y", "?">>
Q_leave == <<"l", "e", "a", "v", "e", " ", "p", "o", "l", "i", "c", "y", " ", "2", "0", "2", "4">>
Q_company == <<"uD68C", "uC0AC", " ", "uADDC", "uC815", " ", "uC548", "uB0B4">>
Q_support == <<"uC9C0", "uC6D0", " ", "uADDC", "uC815">>
Q_what == <<"uBB50", " ", "uD574", "?">>
Q_blank == <<" ", " ">>

HangulChars ==
    { "uAC00", "uAC11", "uAC8C", "uACB0", "uACC4", "uACE0", "uACF5", "uADDC", "uADF8", "uADFC", "uAE30", "uAE4C", "uB0B4", "uB141", "uB155", "uB204", "uB294", "uB2C8", "uB2E4", "uB354", "uB370", "uB3C4", "uB514", "uB5A4", "uB5BB", "uB610", "uB798", "uB7EC", "uB7F0", "uB7FC", "uB807", "uB85C", "uB8CC", "uB978", "uB9AC", "uB9C8", "uB9CC", "uBA74", "uBB34", "uBB50", "uBC18", "uBCF4", "uBCF5", "uC0AC", "uC0DD", "uC11C", "uC138", "uC18D", "uC218", "uC220", "uC2B5", "uC2B9", "uC2DC", "uC2ED", "uC544", "uC548", "uC5B4", "uC5B8", "uC5BC", "uC5C5", "uC5C7", "uC5D0", "uC624", "uC65C", "uC678", "uC694", "uC6C0", "uC6D0", "uC704", "uC740", "uC74C", "uC758", "uC774", "uC778", "uC790", "uC7A5", "uC7AC", "uC800", "uC804", "uC808", "uC815", "uC81C", "uC870", "uC88B", "uC900", "uC9C0", "uC9C1", "uC9C4", "uCC28", "uCC45", "uCC98", "uCD94", "uCE58", "uCE68", "uCF00", "uD0DD", "uD558", "uD574", "uD589", "uD5C8", "uD61C", "uD68C", "uD6C4", "uD7A3" }

(***************************************************************************)
(* The arithmetic of Python floats (IEEE 754 binary64, round to nearest,   *)
(* ties to even) on scores.  A double that is 0 or lies in [2^-27, 2^20)   *)
(* is a multiple of 2^-80 and is held as that multiple: a natural number   *)
(* of 100 bits in five limbs of 20 bits, the lowest limb first.            *)
(***************************************************************************)
LimbBits == 20

LimbBase == 2^20

NumLimbs == 5

BigZero == [i \in 1..NumLimbs |-> 0]

\* a + b, from limb i on with the carry of the limbs below
RECURSIVE BigAddFrom(_, _, _, _)
BigAddFrom(a, b, i, carry) ==
    IF i > NumLimbs THEN <<>>
    ELSE LET s == a[i] + b[i] + carry IN
         <<s % LimbBase>> \o BigAddFrom(a, b, i + 1, s \div LimbBase)

BigAdd(a, b) == BigAddFrom(a, b, 1, 0)

\* limbs 1..i of floor(a / n) and the remainder, rem being the remainder of the
\* limbs above i; n < 2048
RECURSIVE BigDivFrom(_, _, _, _)
BigDivFrom(a, n, i, rem) ==
    IF i = 0 THEN [q |-> <<>>, r |-> rem]
    ELSE LET cur == rem * LimbBase + a[i]
             rest == BigDivFrom(a, n, i - 1, cur % n)
         IN  [q |-> Append(rest.q, cur \div n), r |-> rest.r]

RECURSIVE BitLen(_)
BitLen(x) == IF x = 0 THEN 0 ELSE 1 + BitLen(x \div 2)

\* the number of bits of a
BigBitLen(a) ==
    LET used == { i \in 1..NumLimbs : a[i] # 0 } IN
    IF used = {} THEN 0
    ELSE LET top == CHOOSE i \in used : \A j \in used : j <= i IN
         (top - 1) * LimbBits + BitLen(a[top])

\* bit i of a, bit 0 being the lowest
BigBit(a, i) == (a[(i \div LimbBits) + 1] \div 2^(i % LimbBits)) % 2

\* one of the bits 0..i-1 of a is set
BigLowBits(a, i) ==
    \/ \E j \in 1..(i \div LimbBits) : a[j] # 0
    \/ a[(i \div LimbBits) + 1] % 2^(i % LimbBits) # 0

\* a with the bits 0..i-1 cleared
BigClearLow(a, i) ==
    [j \in 1..NumLimbs |->
        IF j < (i \div LimbBits) + 1 THEN 0
        ELSE IF j = (i \div LimbBits) + 1 THEN a[j] - (a[j] % 2^(i % LimbBits))
        ELSE a[j]]

BigPow2(i) == [j \in 1..NumLimbs |-> IF j = (i \div LimbBits) + 1 THEN 2^(i % LimbBits) ELSE 0]

\* a < b
BigLess(a, b) ==
    \E i \in 1..NumLimbs : a[i] < b[i] /\ \A j \in (i + 1)..NumLimbs : a[j] = b[j]

\* the double nearest to the exact value, which is a when inexact is false and
\* lies strictly between a and a + 1 when it is true: 53 significant bits are
\* kept, and a value half way between two doubles goes to the even one
RoundToDouble(a, inexact) ==
    LET q == BigBitLen(a) - 53 IN
    IF q <= 0 THEN a
    ELSE LET round_bit == BigBit(a, q - 1) = 1
             sticky == inexact \/ BigLowBits(a, q - 1)
             odd == BigBit(a, q) = 1
         IN  IF round_bit /\ (sticky \/ odd)
             THEN BigAdd(BigClearLow(a, q), BigPow2(q))
             ELSE BigClearLow(a, q)

\* the float of the decimal k/100, as a JSON number or a literal of the code gives it
FromHundredths(k) ==
    LET d == BigDivFrom([i \in 1..NumLimbs |-> IF i = NumLimbs THEN k ELSE 0], 100, NumLimbs, 0)
    IN  RoundToDouble(d.q, d.r # 0)

FloatOfScore == [k \in 0..100 |-> FromHundredths(k)]

\* x + y of two floats
FloatAdd(x, y) == RoundToDouble(BigAdd(x, y), FALSE)

\* sum(scores): the scores are added to 0 from left to right
RECURSIVE FloatSum(_, _)
FloatSum(scores, acc) ==
    IF scores = <<>> THEN acc
    ELSE FloatSum(Tail(scores), FloatAdd(acc, FloatOfScore[Head(scores)]))

\* x / n of a float and an int
FloatDiv(x, n) ==
    LET d == BigDivFrom(x, n, NumLimbs, 0) IN RoundToDouble(d.q, d.r # 0)

\* sum(result.get('score', 0) for result in search_results) / len(search_results)
avg_score(search_results) ==
    FloatDiv(FloatSum([i \in 1..Len(search_results) |-> search_results[i].score], BigZero),
             Len(search_results))
\* the class a-zA-Z
Letters == DOMAIN UpperToLower \cup { UpperToLower[c] : c \in DOMAIN UpperToLower }

Digits == { "0", "1", "2", "3", "4", "5", "6", "7", "8", "9" }

\* the length of the longest prefix of s[i..] made of characters of class
RECURSIVE RunLen(_, _, _)
RunLen(s, i, class) ==
    IF i <= Len(s) /\ s[i] \in class THEN 1 + RunLen(s, i + 1, class) ELSE 0

\* re.findall(r'[class]+', s)
RECURSIVE FindRuns(_, _, _)
FindRuns(s, i, class) ==
    IF i > Len(s) THEN <<>>
    ELSE LET n == RunLen(s, i, class) IN
         IF n = 0 THEN FindRuns(s, i + 1, class)
         ELSE <<SubSeq(s, i, i + n - 1)>> \o FindRuns(s, i + n, class)

\* re.findall(r'[가-힣]*\d+[가-힣]*', s)
RECURSIVE FindNumberWords(_, _)
FindNumberWords(s, i) ==
    IF i > Len(s) THEN <<>>
    ELSE LET h == RunLen(s, i, HangulChars)
             d == RunLen(s, i + h, Digits)
             t == RunLen(s, i + h + d, HangulChars)
         IN  IF d = 0 THEN FindNumberWords(s, i + 1)
             ELSE <<SubSeq(s, i, i + h + d + t - 1)>> \o FindNumberWords(s, i + h + d + t)

\* the list without the later occurrences of an element, order kept
RECURSIVE Dedup(_, _)
Dedup(s, seen) ==
    IF s = <<>> THEN <<>>
    ELSE IF Head(s) \in seen THEN Dedup(Tail(s), seen)
         ELSE <<Head(s)>> \o Dedup(Tail(s), seen \cup {Head(s)})

(***************************************************************************)
(* Step records.  Every step of the trace has the same fields; a field a   *)
(* step type does not carry holds its default (what dict.get returns).     *)
(***************************************************************************)
BlankStep ==
    [ type |-> "", error |-> FALSE, parsed_error |-> FALSE,
      needs_kb_search |-> FALSE, search_keywords |-> <<>>, rule_applied |-> "",
      context_applied |-> FALSE, search_results |-> <<>>,
      is_final_answer |-> FALSE, final_answer |-> <<>>, needs_retry |-> FALSE,
      retry_keywords |-> <<>>,
      iteration_count |-> 0, confidence |-> 0 ]

\* a token of answer text: a word ("w"), whitespace ("ws"), a citation marker [n]
\* ("cite"), a references header ("refhdr"), a reference-list line starting with
\* [n] ("ref"), or one of the program's fixed sentences
Tok(k, n) == [k |-> k, n |-> n]

(***************************************************************************)
(* Orchestration: OptimizedOrchestrationAgent                              *)
(***************************************************************************)
_is_conversation_continuation(query, history) ==
    IF Len(history) = 0 THEN FALSE
    ELSE LET query_lower == Strip(Lower(query)) IN
         \/ /\ Len(Strip(query)) <= 10
            /\ \E i \in 1..Len(continuation_patterns) :
                   Contains(continuation_patterns[i], query_lower)
         \/ /\ Len(Strip(query)) <= 20
            /\ \E i \in 1..Len(question_starters) :
                   StartsWith(Strip(query), question_starters[i])

never_simple_greeting(query) == FALSE

Orch_is_simple_greeting(query) ==
    /\ \E i \in 1..Len(orchestration_greetings) :
           Contains(orchestration_greetings[i], Strip(Lower(query)))
    /\ Len(Strip(query)) < 20

\* the direct-answer result with needs_kb_search set
_create_direct_answer_with_search ==
    [BlankStep EXCEPT !.type = "Orchestration", !.rule_applied = "direct_answer",
                      !.context_applied = TRUE, !.confidence = 90,
                      !.needs_kb_search = TRUE]

_create_direct_answer_result ==
    [BlankStep EXCEPT !.type = "Orchestration", !.rule_applied = "direct_answer",
                      !.context_applied = TRUE, !.confidence = 90]

_create_error_result ==
    [BlankStep EXCEPT !.type = "Orchestration", !.rule_applied = "error", !.error = TRUE]

_extract_keywords_fallback(query) ==
    LET korean_words == FindRuns(query, 1, HangulChars)
        english_words == FindRuns(query, 1, Letters)
        number_words == FindNumberWords(query, 1)
        all_keywords == korean_words \o english_words \o number_words
        long == SelectSeqIdx(all_keywords, {i \in 1..Len(all_keywords) : Len(all_keywords[i]) >= 2}, 1)
        unique_keywords == Dedup(long, {})
    IN  IF unique_keywords # <<>> THEN Take(unique_keywords, 3) ELSE <<Take(query, 20)>>

\* reply: what the keyword model call gave: parsed |-> a non-empty JSON list was
\* found in the reply, keywords |-> that list
_generate_keywords_fast(query, reply) ==
    IF reply.parsed /\ Len(reply.keywords) > 0 THEN Take(reply.keywords, 3)
    ELSE _extract_keywords_fallback(query)

orchestrate(context, reply) ==
    IF _is_conversation_continuation(context.original_query, context.conversation_history)
    THEN _create_direct_answer_result
    ELSE IF Orch_is_simple_greeting(context.original_query)
    THEN _create_direct_answer_result
    ELSE IF context.kb_id = <<>>
    THEN _create_direct_answer_result
    ELSE IF context.retry_keywords # <<>>
    THEN [BlankStep EXCEPT !.type = "Orchestration", !.rule_applied = "kb_retry",
                           !.needs_kb_search = TRUE,
                           !.search_keywords = context.retry_keywords,
                           !.confidence = 90,
                           !.context_applied = Len(context.conversation_history) > 0]
    ELSE [BlankStep EXCEPT !.type = "Orchestration", !.rule_applied = "kb_priority",
                           !.needs_kb_search = TRUE,
                           !.search_keywords =
                               _generate_keywords_fast(context.original_query, reply),
                           !.confidence = 95,
                           !.context_applied = Len(context.conversation_history) > 0]

(***************************************************************************)
(* Search Client: KnowledgeBaseSearcher                                    *)
(***************************************************************************)
\* bool(kb_id and kb_id.strip())
is_kb_enabled(kb_id) == kb_id # <<>> /\ Strip(kb_id) # <<>>

\* content[:100] as far as equality goes: a content is its first-100-characters
\* class (pfx) and its length
ContentPrefix100(content) == <<content.pfx, Min(content.len, 100)>>

\* search(): response is the index's retrievalResults (a transport error gives [])
search(kb_id, response) ==
    IF ~ is_kb_enabled(kb_id) THEN <<>>
    ELSE [i \in 1..Len(response) |->
             [citation_id |-> i, content |-> response[i].content,
              score |-> response[i].score, source |-> response[i].source, query |-> <<>>]]

\* list.sort(key=score, reverse=True): stable, descending
RECURSIVE InsertByScore(_, _)
InsertByScore(sorted, r) ==
    IF sorted = <<>> THEN <<r>>
    ELSE IF Head(sorted).score >= r.score THEN <<Head(sorted)>> \o InsertByScore(Tail(sorted), r)
         ELSE <<r>> \o sorted

RECURSIVE SortByScoreDesc(_, _)
SortByScoreDesc(s, acc) ==
    IF s = <<>> THEN acc ELSE SortByScoreDesc(Tail(s), InsertByScore(acc, Head(s)))

\* the loop over queries of search_multiple_queries: all holds the results kept so
\* far, seen the content hashes
RECURSIVE MergeResults(_, _, _, _)
MergeResults(results, query, all, seen) ==
    IF results = <<>> THEN [all |-> all, seen |-> seen]
    ELSE LET r == Head(results)
             h == ContentPrefix100(r.content)
         IN  IF h \in seen THEN MergeResults(Tail(results), query, all, seen)
             ELSE MergeResults(Tail(results), query,
                               Append(all, [r EXCEPT !.query = query]), seen \cup {h})

RECURSIVE SearchEachQuery(_, _, _, _, _, _)
SearchEachQuery(kb_id, queries, responses, i, all, seen) ==
    IF i > Len(queries) THEN all
    ELSE IF Strip(queries[i]) = <<>>
         THEN SearchEachQuery(kb_id, queries, responses, i + 1, all, seen)
         ELSE LET m == MergeResults(search(kb_id, responses[i]), queries[i], all, seen)
              IN  SearchEachQuery(kb_id, queries, responses, i + 1, m.all, m.seen)

\* KB_DEFAULT_CONFIG["max_results"]
KB_max_results_six == 5 + 1

KB_max_results == 5

search_multiple_queries(kb_id, queries, responses) ==
    Take(SortByScoreDesc(SearchEachQuery(kb_id, queries, responses, 1, <<>>, {}), <<>>),
         KB_max_results)

(***************************************************************************)
(* Action: ActionAgent                                                     *)
(***************************************************************************)
\* the most recent step of the given type, or BlankStep when there is none
RECURSIVE LastOfType(_, _)
LastOfType(previous_steps, type) ==
    IF previous_steps = <<>> THEN BlankStep
    ELSE IF Last(previous_steps).type = type THEN Last(previous_steps)
         ELSE LastOfType(SubSeq(previous_steps, 1, Len(previous_steps) - 1), type)

Action_create_error_response(search_keywords) ==
    [BlankStep EXCEPT !.type = "Action", !.search_keywords = search_keywords,
                      !.parsed_error = TRUE, !.error = TRUE]

\* self.kb_searcher is None when the index was not enabled at construction
_perform_kb_search(kb_id, search_keywords, responses) ==
    IF ~ is_kb_enabled(kb_id) THEN Action_create_error_response(search_keywords)
    ELSE [BlankStep EXCEPT !.type = "Action", !.search_keywords = search_keywords,
                           !.search_results =
                               search_multiple_queries(kb_id, search_keywords, responses)]

_perform_direct_response == [BlankStep EXCEPT !.type = "Action"]

_handle_no_search_case(search_keywords) ==
    [BlankStep EXCEPT !.type = "Action", !.search_keywords = search_keywords,
                      !.parsed_error = TRUE, !.error = TRUE]

act(context, previous_steps, responses) ==
    LET orchestration_result == LastOfType(previous_steps, "Orchestration") IN
    IF orchestration_result.type = "" THEN Action_create_error_response(<<>>)
    ELSE IF /\ orchestration_result.needs_kb_search
            /\ is_kb_enabled(context.kb_id)
            /\ orchestration_result.search_keywords # <<>>
    THEN _perform_kb_search(context.kb_id, orchestration_result.search_keywords, responses)
    ELSE IF ~ orchestration_result.needs_kb_search
    THEN _perform_direct_response
    ELSE _handle_no_search_case(orchestration_result.search_keywords)

(***************************************************************************)
(* Observation: CitationEnhancedObservationAgent                           *)
(***************************************************************************)
IsWs(t) == t.k = "ws"

RECURSIVE TextLStrip(_)
TextLStrip(t) == IF t # <<>> /\ IsWs(Head(t)) THEN TextLStrip(Tail(t)) ELSE t

RECURSIVE TextRStrip(_)
TextRStrip(t) ==
    IF t # <<>> /\ IsWs(Last(t)) THEN TextRStrip(SubSeq(t, 1, Len(t) - 1)) ELSE t

\* response.strip()
TextStrip(t) == TextRStrip(TextLStrip(t))

\* re.findall(r'\[(\d+)\]', text): the numbers of the [n] markers, in order
RECURSIVE FindCitations(_)
FindCitations(text) ==
    IF text = <<>> THEN <<>>
    ELSE (IF Head(text).k \in {"cite", "ref"} THEN <<Head(text).n>> ELSE <<>>)
         \o FindCitations(Tail(text))

_create_final_response(answer) ==
    [BlankStep EXCEPT !.type = "Observation", !.is_final_answer = TRUE,
                      !.final_answer = answer]

Apology == <<Tok("apology_processing_error", 0)>>

\* the error response without is_final_answer
Obs_error_response_not_final ==
    [BlankStep EXCEPT !.type = "Observation", !.final_answer = Apology, !.error = TRUE]

Obs_create_error_response ==
    [BlankStep EXCEPT !.type = "Observation", !.is_final_answer = TRUE,
                      !.final_answer = Apology, !.error = TRUE]

Obs_is_simple_greeting(query) ==
    \E i \in 1..Len(observation_greetings) :
        Contains(observation_greetings[i], Strip(Lower(query)))

\* the fixed greeting sentences, by the position of their key in responses; the
\* default sentence is the one of the first key
_generate_greeting_response(query) ==
    LET query_lower == Strip(Lower(query))
        hits == { i \in 1..Len(greeting_response_keys) :
                      Contains(greeting_response_keys[i], query_lower) }
    IN  IF hits = {} THEN <<Tok("greeting", 1)>>
        ELSE <<Tok("greeting", CHOOSE i \in hits : \A j \in hits : i <= j)>>

\* a direct model answer (context-aware, general, or after a search failure):
\* reply.raises when invoke_model raised
DirectModelAnswer(reply) ==
    IF reply.raises THEN Obs_create_error_response
    ELSE _create_final_response(TextStrip(reply.text))

_handle_no_action_case_with_context(context, reply) ==
    IF Obs_is_simple_greeting(context.original_query)
    THEN _create_final_response(_generate_greeting_response(context.original_query))
    ELSE DirectModelAnswer(reply)

_handle_search_failure_with_context(reply) == DirectModelAnswer(reply)

\* _assess_search_quality thresholds of the three tiers
min_avg_score_stricter == 50 + 10
min_avg_score_high == 50
min_max_score_high == 60
min_content_length_high == 200
min_avg_score_mid_raised == 50 + 20
min_avg_score_mid == 40
min_max_score_mid == 50
min_content_length_mid == 150
min_avg_score_low == 20
min_max_score_low == 30
min_content_length_low == 50
FinalIterationLater == 5 + 1
FinalIteration == 5

RECURSIVE MaxScore(_)
MaxScore(results) ==
    IF Len(results) = 1 THEN results[1].score
    ELSE LET m == MaxScore(Tail(results)) IN
         IF Head(results).score >= m THEN Head(results).score ELSE m

_assess_search_quality(search_results, iteration) ==
    IF search_results = <<>>
    THEN [needs_retry |-> iteration < FinalIteration, reason |-> "no results"]
    ELSE
    LET min_avg_score == IF iteration <= 2 THEN min_avg_score_high
                         ELSE IF iteration <= 4 THEN min_avg_score_mid
                         ELSE min_avg_score_low
        min_max_score == IF iteration <= 2 THEN min_max_score_high
                         ELSE IF iteration <= 4 THEN min_max_score_mid
                         ELSE min_max_score_low
        min_content_length == IF iteration <= 2 THEN min_content_length_high
                              ELSE IF iteration <= 4 THEN min_content_length_mid
                              ELSE min_content_length_low
        n == Len(search_results)
        max_score == MaxScore(search_results)
        total_content_length == SumSeq([i \in 1..n |-> search_results[i].content.len])
    IN  IF n = 1 /\ search_results[1].score < min_max_score /\ iteration < FinalIteration
        THEN [needs_retry |-> TRUE, reason |-> "single result, low relevance"]
        ELSE IF /\ BigLess(avg_score(search_results), FloatOfScore[min_avg_score])
                /\ iteration < FinalIteration
        THEN [needs_retry |-> TRUE, reason |-> "average score low"]
        ELSE IF max_score < min_max_score /\ iteration < FinalIteration
        THEN [needs_retry |-> TRUE, reason |-> "maximum score low"]
        ELSE IF total_content_length < min_content_length /\ iteration < FinalIteration
        THEN [needs_retry |-> TRUE, reason |-> "content too short"]
        ELSE [needs_retry |-> FALSE, reason |-> "sufficient or final iteration"]

\* keyword.replace(old, new)
RECURSIVE Replace(_, _, _)
Replace(s, old, new) ==
    IF Len(s) < Len(old) \/ old = <<>> THEN s
    ELSE IF SubSeq(s, 1, Len(old)) = old
         THEN new \o Replace(SubSeq(s, Len(old) + 1, Len(s)), old, new)
         ELSE <<Head(s)>> \o Replace(Tail(s), old, new)

InSeq(x, s) == \E i \in 1..Len(s) : s[i] = x

\* the first synonym whose replacement is acceptable is appended
RECURSIVE TrySynonyms(_, _, _, _, _)
TrySynonyms(keyword, word, synonyms, new_keywords, previous_keywords) ==
    IF synonyms = <<>> THEN new_keywords
    ELSE LET new_keyword == Replace(keyword, word, Head(synonyms)) IN
         IF ~ InSeq(new_keyword, new_keywords) /\ ~ InSeq(new_keyword, previous_keywords)
         THEN Append(new_keywords, new_keyword)
         ELSE TrySynonyms(keyword, word, Tail(synonyms), new_keywords, previous_keywords)

\* only the first word of synonym_map that occurs in the keyword is tried
RECURSIVE SynonymStep(_, _, _, _)
SynonymStep(keyword, i, new_keywords, previous_keywords) ==
    IF i > Len(synonym_map) THEN new_keywords
    ELSE IF Contains(synonym_map[i].word, keyword)
         THEN TrySynonyms(keyword, synonym_map[i].word, synonym_map[i].synonyms,
                          new_keywords, previous_keywords)
         ELSE SynonymStep(keyword, i + 1, new_keywords, previous_keywords)

RECURSIVE SynonymLoop(_, _, _)
SynonymLoop(keywords, new_keywords, previous_keywords) ==
    IF keywords = <<>> THEN new_keywords
    ELSE SynonymLoop(Tail(keywords),
                     SynonymStep(Head(keywords), 1, new_keywords, previous_keywords),
                     previous_keywords)

RECURSIVE CombineLoop(_, _, _, _)
CombineLoop(korean_words, i, new_keywords, previous_keywords) ==
    IF i > Len(korean_words) - 1 THEN new_keywords
    ELSE LET combined == korean_words[i] \o <<" ">> \o korean_words[i + 1] IN
         CombineLoop(korean_words, i + 1,
                     IF ~ InSeq(combined, new_keywords) /\ ~ InSeq(combined, previous_keywords)
                     THEN Append(new_keywords, combined) ELSE new_keywords,
                     previous_keywords)

\* word in str(previous_keywords): a Hangul word is in the list's text exactly
\* when it is inside one of its keywords
InListText(word, previous_keywords) ==
    \E i \in 1..Len(previous_keywords) : Contains(word, previous_keywords[i])

RECURSIVE SingleLoop(_, _, _)
SingleLoop(korean_words, new_keywords, previous_keywords) ==
    IF korean_words = <<>> THEN new_keywords
    ELSE LET word == Head(korean_words) IN
         SingleLoop(Tail(korean_words),
                    IF /\ Len(word) >= 2
                       /\ ~ InSeq(word, new_keywords)
                       /\ ~ InListText(word, previous_keywords)
                    THEN Append(new_keywords, word) ELSE new_keywords,
                    previous_keywords)

_generate_retry_keywords(query, previous_keywords) ==
    LET korean_words == FindRuns(query, 1, HangulChars)
        k1 == SynonymLoop(previous_keywords, <<>>, previous_keywords)
        k2 == IF Len(korean_words) >= 2
              THEN CombineLoop(korean_words, 1, k1, previous_keywords) ELSE k1
        new_keywords == SingleLoop(korean_words, k2, previous_keywords)
    IN  IF new_keywords # <<>> THEN Take(new_keywords, 3) ELSE <<Take(query, 20)>>

_ensure_citations_in_response(response, citations) ==
    LET has_citations == FindCitations(response) # <<>>
        has_references == \E i \in 1..Len(response) : response[i].k = "refhdr"
    IN  IF ~ has_citations \/ ~ has_references
        THEN IF ~ has_references
             THEN response \o <<Tok("refhdr", 0)>>
                           \o [i \in 1..Len(citations) |-> Tok("ref", citations[i])]
             ELSE response
        ELSE response

NumOfType(previous_steps, type) ==
    Cardinality({ i \in 1..Len(previous_steps) : previous_steps[i].type = type })

_analyze_search_results_with_enhanced_citation(search_results, context, search_keywords, previous_steps, reply) ==
    LET citations == [i \in 1..Len(search_results) |-> i]
        action_count == NumOfType(previous_steps, "Action")
        current_iteration == action_count + 1
        quality_assessment == _assess_search_quality(search_results, current_iteration)
    IN  IF current_iteration >= FinalIteration \/ ~ quality_assessment.needs_retry
        THEN IF reply.raises THEN Obs_create_error_response
             ELSE [_create_final_response(
                      _ensure_citations_in_response(reply.text, citations))
                   EXCEPT !.iteration_count = current_iteration]
        ELSE [BlankStep EXCEPT !.type = "Observation", !.needs_retry = TRUE,
                               !.retry_keywords =
                                   _generate_retry_keywords(context.original_query,
                                                            search_keywords),
                               !.iteration_count = current_iteration]

\* previous_steps: the trace; context_steps: context["previous_steps"]
observe(context, previous_steps, context_steps, reply) ==
    LET action_result == LastOfType(previous_steps, "Action") IN
    IF action_result.type = ""
    THEN _handle_no_action_case_with_context(context, reply)
    ELSE IF action_result.search_results # <<>> /\ ~ action_result.parsed_error
    THEN _analyze_search_results_with_enhanced_citation(
             action_result.search_results, context, action_result.search_keywords,
             context_steps, reply)
    ELSE IF action_result.search_results = <<>> /\ ~ action_result.parsed_error
    THEN _handle_no_action_case_with_context(context, reply)
    ELSE _handle_search_failure_with_context(reply)

(***************************************************************************)
(* Safety Controller (the same class in both react_agent.py files)         *)
(***************************************************************************)
\* the budget one error larger
max_errors_four == 3 + 1

max_errors == 3

SafetyController(max_iterations) ==
    [ max_iterations |-> max_iterations, used_keywords |-> {},
      repeated_actions |-> <<>>, error_count |-> 0 ]

\* type and the text of the keyword list (hash collisions apart)
_get_action_signature(type, search_keywords) == <<type, search_keywords>>

CountOfButOne(x, s) == Cardinality({ i \in 1..Len(s) : s[i] = x }) - 1

CountOf(x, s) == Cardinality({ i \in 1..Len(s) : s[i] = x })

\* rule 1 with > for >=
max_iterations_exceeded(sc, iteration) == iteration > sc.max_iterations

\* rule 1: current_iteration >= self.max_iterations
max_iterations_reached(sc, iteration) == iteration >= sc.max_iterations

\* rule 3 with the size threshold one too high
keyword_repetition_above_three(sc, search_keywords) ==
    LET keywords == Range(search_keywords) IN
    /\ search_keywords # <<>>
    /\ keywords \subseteq sc.used_keywords
    /\ Cardinality(keywords) > 3

\* rule 3: keywords and keywords.issubset(self.used_keywords) and len(keywords) > 2
keyword_repetition(sc, search_keywords) ==
    LET keywords == Range(search_keywords) IN
    /\ search_keywords # <<>>
    /\ keywords \subseteq sc.used_keywords
    /\ Cardinality(keywords) > 2

\* the update left out
used_keywords_not_updated(sc, search_keywords) == sc

\* self.used_keywords.update(keywords)
used_keywords_update(sc, search_keywords) ==
    [sc EXCEPT !.used_keywords = @ \cup Range(search_keywords)]

\* action_type and search_keywords: action_result.get('type', 'unknown') and
\* action_result.get('search_keywords', []).  The result holds the decision, the
\* reason and the controller after the call.
should_continue(sc, iteration, action_type, search_keywords) ==
    IF max_iterations_reached(sc, iteration)
    THEN [continue |-> FALSE, reason |-> "max_iterations", sc |-> sc]
    ELSE IF sc.error_count >= max_errors
    THEN [continue |-> FALSE, reason |-> "max_errors", sc |-> sc]
    ELSE IF keyword_repetition(sc, search_keywords)
    THEN [continue |-> FALSE, reason |-> "keyword_repetition", sc |-> sc]
    ELSE
    LET sc1 == used_keywords_update(sc, search_keywords)
        action_signature == _get_action_signature(action_type, search_keywords)
    IN  IF CountOf(action_signature, sc1.repeated_actions) >= 2
        THEN [continue |-> FALSE, reason |-> "action_repeated", sc |-> sc1]
        ELSE [continue |-> TRUE, reason |-> "",
              sc |-> [sc1 EXCEPT !.repeated_actions = Append(@, action_signature)]]

record_error(sc) == [sc EXCEPT !.error_count = @ + 1]

reset_error_count(sc) == [sc EXCEPT !.error_count = 0]

\* the driver's bookkeeping after a step: record_error on an error flag, else reset
CountStep(sc, flag) == IF flag THEN record_error(sc) ELSE reset_error_count(sc)

(***************************************************************************)
(* The environment: what the user, the model and the index may supply      *)
(***************************************************************************)
\* the largest n of a marker [n] the model writes into an answer
MaxCiteId == 3

Kw1 == <<"k", "1">>
Kw2 == <<"k", "2">>
Kw3 == <<"k", "3">>
Kw4 == <<"k", "4">>

NoHistory == <<>>

History == <<"user", "assistant">>

NoKb == <<>>

BlankKb == <<" ">>

Kb == <<"K", "B">>

Request(q, h, kb) == [query |-> q, history |-> h, kb_id |-> kb]

\* the requests: a query, the conversation so far and the configured index
Requests ==
    { Request(Q_hello, NoHistory, Kb), Request(Q_hello, NoHistory, NoKb),
      Request(Q_then, History, Kb), Request(Q_then, NoHistory, Kb),
      Request(Q_what, History, NoKb), Request(Q_which, NoHistory, BlankKb),
      Request(Q_which, History, Kb), Request(Q_leave, NoHistory, NoKb),
      Request(Q_company, NoHistory, Kb), Request(Q_blank, NoHistory, Kb) }

\* config.max_iterations: the default and a smaller setting
ConfiguredMaxIterations == { 3, 5 }

\* the keyword model call of Orchestration: no JSON list in the reply (or the call
\* raised), or a list of keywords, which may be longer than 3
KeywordReplies ==
    { [parsed |-> FALSE, keywords |-> <<>>],
      [parsed |-> TRUE, keywords |-> <<Kw1, Kw2, Kw3, Kw4>>],
      [parsed |-> TRUE, keywords |-> <<Kw1, <<" ">> >>],
      [parsed |-> TRUE,
       keywords |-> << <<"uC548", "uB0B4">>, <<"uAE30", "uC5C5">>,
                       <<"uD68C", "uC0AC", " ", "uC815", "uCC45">> >>] }

W == Tok("w", 0)

Cite(n) == Tok("cite", n)

\* the texts a model call may return
ModelTexts ==
    { <<>>, <<Tok("ws", 0)>>, <<W>>, <<W, Cite(1), Tok("refhdr", 0), Tok("ref", 1)>>,
      <<W, Cite(1)>>, <<Cite(2), W, Cite(1)>>, <<W, Tok("refhdr", 0)>> }
    \cup { <<W, Cite(n)>> : n \in MaxCiteId..MaxCiteId }

ModelReplies ==
    { [raises |-> TRUE, text |-> <<>>] } \cup { [raises |-> FALSE, text |-> t] : t \in ModelTexts }

Doc(pfx, len, score) == [content |-> [pfx |-> pfx, len |-> len], score |-> score, source |-> pfx]

\* what the index returns to the i-th query of one multi-keyword search (at most
\* max_results_per_query = 2 results a query)
IndexResponse(scenario, i) ==
    CASE scenario = "none" -> <<>>
      [] scenario = "low"  -> <<Doc(i, 250, 10)>>
      [] scenario = "s25"  -> <<Doc(i, 250, 25)>>
      [] scenario = "mid"  -> <<Doc(2 * i - 1, 100, 55), Doc(2 * i, 100, 40)>>
      [] scenario = "high" -> <<Doc(2 * i - 1, 120, 50), Doc(2 * i, 120, 60)>>
      [] scenario = "dup"  -> <<Doc(1, 80, 65), Doc(1, 80, 70)>>

Scenarios == { "none", "low", "s25", "mid", "high", "dup" }

Responses(scenario) == [i \in 1..3 |-> IndexResponse(scenario, i)]

(***************************************************************************)
(* The state of one call of run                                            *)
(***************************************************************************)
VARIABLES
    driver,              \* "v5": IntelligentReActAgent.run, "cdk": ReActAgent.run
    config,              \* kb_id, max_iterations
    context,             \* the loop context
    steps,               \* the trace (steps / react_steps)
    pc,                  \* the position in run
    current_iteration,   \* iteration + 1 in v5, current_iteration in cdk
    safety_controller,
    final_answer,        \* [set, text]: set is FALSE while final_answer is None
    termination_reason,  \* [kind, reason, n]
    result               \* what run returned

vars == << driver, config, context, steps, pc, current_iteration, safety_controller,
           final_answer, termination_reason, result >>

None == [set |-> FALSE, text |-> <<>>]

Some(text) == [set |-> TRUE, text |-> text]

\* a termination reason: the sentence (kind), the Safety Controller's reason it quotes
\* and the number it formats
Reason(kind, reason, n) == [kind |-> kind, reason |-> reason, n |-> n]

NoReason == Reason("", "", 0)

NoResult ==
    [ returned |-> FALSE, content |-> <<>>, steps |-> <<>>, iterations_used |-> 0,
      termination_reason |-> NoReason, error |-> FALSE ]

(***************************************************************************)
(* Loop Driver v5: IntelligentReActAgent.run                               *)
(***************************************************************************)
InitV5 ==
    /\ driver = "v5"
    /\ \E r \in Requests, m \in ConfiguredMaxIterations :
           /\ config = [kb_id |-> r.kb_id, max_iterations |-> m, index |-> "any"]
           /\ context = [ original_query |-> r.query, conversation_history |-> r.history,
                          kb_id |-> r.kb_id, retry_keywords |-> <<>>,
                          has_previous_steps |-> FALSE ]
    /\ steps = <<>>
    /\ pc = "orchestration"
    /\ current_iteration = 0
    /\ safety_controller = SafetyController(config.max_iterations)
    /\ final_answer = None
    /\ termination_reason = Reason("normal_completion", "", 0)
    /\ result = NoResult

ApologyIncomplete == <<Tok("apology_not_enough_information", 0)>>

\* the return statement of run
V5Return(answer, reason, trace) ==
    [ returned |-> TRUE, content |-> answer, steps |-> trace,
      iterations_used |-> NumOfType(trace, "Orchestration"),
      termination_reason |-> reason, error |-> FALSE ]

\* leaving the loop: break with an answer, or the for loop running out
V5Finish(answer, reason, trace) ==
    /\ pc' = "done"
    /\ final_answer' = answer
    /\ termination_reason' = reason
    /\ result' = V5Return(answer.text, reason, trace)

\* the same with one iteration more than range(max_iterations) has
V5NextIterationPastLimit(trace) ==
    IF current_iteration <= config.max_iterations
    THEN /\ pc' = "orchestration"
         /\ UNCHANGED << final_answer, termination_reason, result >>
    ELSE V5Finish(Some(ApologyIncomplete), Reason("max_iterations_reached", "", 0), trace)

\* continue / the end of the loop body: the next element of range(max_iterations),
\* or the for loop running out with final_answer still None
V5NextIteration(trace) ==
    IF current_iteration < config.max_iterations
    THEN /\ pc' = "orchestration"
         /\ UNCHANGED << final_answer, termination_reason, result >>
    ELSE V5Finish(Some(ApologyIncomplete), Reason("max_iterations_reached", "", 0), trace)

\* obs_parsed.get("partial_answer") or obs_parsed.get("final_answer", default): no
\* result of observe carries partial_answer and every one carries the key
\* final_answer (empty in a retry result), so that the default is never taken
V5PartialAnswer(observation_result) == observation_result.final_answer

\* the retry keywords left out of the context
RetryKeywordsNotStored(ctx, observation_result) == ctx

\* context["retry_keywords"] = retry_keywords
StoreRetryKeywords(ctx, observation_result) ==
    [ctx EXCEPT !.retry_keywords = observation_result.retry_keywords]

V5Orchestrate ==
    /\ driver = "v5" /\ pc = "orchestration"
    /\ current_iteration' = current_iteration + 1
    /\ \E reply \in KeywordReplies :
          LET orchestration_result == orchestrate(context, reply) IN
          /\ steps' = Append(steps, orchestration_result)
          /\ safety_controller' =
                 CountStep(safety_controller, orchestration_result.parsed_error)
          /\ pc' = IF orchestration_result.needs_kb_search THEN "action"
                   ELSE "observation_direct"
    /\ UNCHANGED << driver, config, context, final_answer, termination_reason, result >>

\* the Observation that follows an Orchestration without search
\* the same without the break of the direct-answer branch
V5ObserveDirectNoBreak ==
    /\ driver = "v5" /\ pc = "observation_direct"
    /\ \E reply \in ModelReplies :
          steps' = Append(steps, observe(context, steps,
                                         IF context.has_previous_steps THEN steps ELSE <<>>,
                                         reply))
    /\ pc' = "action"
    /\ UNCHANGED << driver, config, context, current_iteration, safety_controller,
                    final_answer, termination_reason, result >>

V5ObserveDirect ==
    /\ driver = "v5" /\ pc = "observation_direct"
    /\ \E reply \in ModelReplies :
          LET observation_result ==
                  observe(context, steps,
                          IF context.has_previous_steps THEN steps ELSE <<>>, reply)
              trace == Append(steps, observation_result)
          IN  /\ steps' = trace
              /\ IF observation_result.is_final_answer
                 THEN V5Finish(Some(observation_result.final_answer),
                               Reason("answered_without_kb_search", "", 0), trace)
                 ELSE /\ pc' = "action"
                      /\ UNCHANGED << final_answer, termination_reason, result >>
    /\ UNCHANGED << driver, config, context, current_iteration, safety_controller >>

V5Act ==
    /\ driver = "v5" /\ pc = "action"
    /\ \E scenario \in Scenarios :
          LET action_result == act(context, steps, Responses(scenario)) IN
          /\ steps' = Append(steps, action_result)
          /\ safety_controller' = CountStep(safety_controller, action_result.parsed_error)
    /\ context' = [context EXCEPT !.has_previous_steps = TRUE]
    /\ pc' = "observation"
    /\ UNCHANGED << driver, config, current_iteration, final_answer, termination_reason,
                    result >>

\* the Observation after an Action, and the decisions that follow it
V5Observe ==
    /\ driver = "v5" /\ pc = "observation"
    /\ \E reply \in ModelReplies :
          LET observation_result == observe(context, steps, steps, reply)
              trace == Append(steps, observation_result)
              action_parsed == LastOfType(steps, "Action")
              check == should_continue(safety_controller, current_iteration, "unknown",
                                       action_parsed.search_keywords)
          IN  /\ steps' = trace
              /\ IF observation_result.is_final_answer
                 THEN /\ V5Finish(Some(observation_result.final_answer),
                                  Reason("completed_after_iterations", "", current_iteration),
                                  trace)
                      /\ UNCHANGED << context, safety_controller >>
                 ELSE IF /\ observation_result.needs_retry
                         /\ observation_result.retry_keywords # <<>>
                 THEN /\ context' = StoreRetryKeywords(context, observation_result)
                      /\ V5NextIteration(trace)
                      /\ UNCHANGED safety_controller
                 ELSE /\ safety_controller' = check.sc
                      /\ UNCHANGED context
                      /\ IF ~ check.continue
                         THEN V5Finish(Some(V5PartialAnswer(observation_result)),
                                       Reason("safety", check.reason, 0), trace)
                         ELSE V5NextIteration(trace)
    /\ UNCHANGED << driver, config, current_iteration >>

V5Next == V5Orchestrate \/ V5ObserveDirect \/ V5Act \/ V5Observe

SpecV5 == InitV5 /\ [][V5Next]_vars

(***************************************************************************)
(* Loop Driver of the container application: ReActAgent.run                *)
(*                                                                         *)
(* The module imports OrchestrationAgent and ActionAgent from the          *)
(* container package (orchestration.py, action.py), whose methods are      *)
(* orchestrate(self, context) and act(self, context, previous_steps).  run *)
(* calls self.orchestration_agent.orchestrate(context, react_steps): one   *)
(* positional argument too many, so that the call raises TypeError before  *)
(* the body of orchestrate runs, in every iteration and for every request. *)
(* The except clause of the iteration records an Error step and consults   *)
(* the Safety Controller with an empty action.  The statements of the try  *)
(* block after the call (act, observe, the decisions on the Observation    *)
(* result, the citation pass) are never executed.                          *)
(***************************************************************************)
CDK_max_iterations == 5

SystemErrorAnswer == <<Tok("system_error_no_answer", 0)>>

\* the search results of the Action steps, in order
RECURSIVE CollectSearchResults(_)
CollectSearchResults(react_steps) ==
    IF react_steps = <<>> THEN <<>>
    ELSE (IF Head(react_steps).type = "Action" THEN Head(react_steps).search_results
          ELSE <<>>)
         \o CollectSearchResults(Tail(react_steps))

_generate_fallback_answer(react_steps) ==
    <<Tok("fallback_analyses", NumOfType(react_steps, "Orchestration")),
      Tok("fallback_searches", NumOfType(react_steps, "Action"))>>
    \o (IF CollectSearchResults(react_steps) # <<>>
        THEN <<Tok("fallback_some_information", 0)>> ELSE <<>>)
    \o <<Tok("fallback_ask_more_specific", 0)>>

\* self.orchestration_agent.orchestrate(context, react_steps), the first statement of
\* the try block: OptimizedOrchestrationAgent.orchestrate takes the context alone, the
\* call raises TypeError whatever the context and the trace hold
CDKOrchestrationCall(ctx, react_steps) == [raises |-> TRUE, exception |-> "TypeError"]

\* run(user_query, conversation_history) of a ReActAgent built on a config: the
\* context holds no kb_id, and the Safety Controller is built with the literal 5,
\* whatever config.max_iterations is
InitCDK ==
    /\ driver = "cdk"
    /\ \E r \in Requests, m \in ConfiguredMaxIterations :
           /\ config = [kb_id |-> r.kb_id, max_iterations |-> m, index |-> "any"]
           /\ context = [ original_query |-> r.query,
                          conversation_history |-> r.history, kb_results |-> <<>> ]
    /\ steps = <<>>
    /\ pc = "orchestration"
    /\ current_iteration = 0
    /\ safety_controller = SafetyController(CDK_max_iterations)
    /\ final_answer = None
    /\ termination_reason = NoReason
    /\ result = NoResult

\* after the loop: the fallback for an empty answer, and the return statement
CDKFinish(answer, reason, trace, iteration) ==
    LET content == IF answer = <<>> THEN _generate_fallback_answer(trace) ELSE answer
        termination == IF answer = <<>> /\ reason = NoReason
                       THEN Reason("fallback_answer_generated", "", 0) ELSE reason
    IN  /\ pc' = "done"
        /\ final_answer' = Some(content)
        /\ termination_reason' = termination
        /\ result' = [ returned |-> TRUE, content |-> content, steps |-> trace,
                       iterations_used |-> iteration, termination_reason |-> termination,
                       error |-> FALSE ]

ErrorStep(iteration) ==
    [BlankStep EXCEPT !.type = "Error", !.error = TRUE, !.iteration_count = iteration]

\* the handler without its except clause: the exception leaves run
CDKExceptEscapes(iteration) ==
    /\ steps' = steps
    /\ safety_controller' = safety_controller
    /\ pc' = "raised"
    /\ UNCHANGED << final_answer, termination_reason, result >>

\* except Exception inside the loop: a step of iteration raised
CDKExcept(iteration) ==
    LET trace == Append(steps, ErrorStep(iteration))
        check == should_continue(record_error(safety_controller), iteration, "unknown", <<>>)
    IN  /\ steps' = trace
        /\ safety_controller' = check.sc
        /\ IF ~ check.continue
           THEN CDKFinish(SystemErrorAnswer, Reason("safety", check.reason, 0), trace,
                          iteration)
           ELSE /\ pc' = "orchestration"
                /\ UNCHANGED << final_answer, termination_reason, result >>

\* one iteration of while True: the Orchestration call raises and the except clause
\* handles it
CDKOrchestrate ==
    /\ driver = "cdk" /\ pc = "orchestration"
    /\ current_iteration' = current_iteration + 1
    /\ CDKOrchestrationCall(context, steps).raises
    /\ CDKExcept(current_iteration + 1)
    /\ UNCHANGED << driver, config, context >>

CDKNext == CDKOrchestrate

SpecCDK == InitCDK /\ [][CDKNext]_vars

Init == InitV5 \/ InitCDK

Next == V5Next \/ CDKNext

Spec == Init /\ [][Next]_vars

(***************************************************************************)
(* Properties                                                              *)
(***************************************************************************)
\* the iteration limit of the driver in use
MaxIterations == IF driver = "cdk" THEN CDK_max_iterations ELSE config.max_iterations

Done == pc = "done"

WithinMaxIterations ==
    /\ current_iteration <= MaxIterations
    /\ NumOfType(steps, "Orchestration") <= MaxIterations
    /\ Len(steps) <= 3 * MaxIterations
    /\ Done => result.iterations_used <= MaxIterations

\* C1: run terminates after at most max_iterations loop iterations: the loop never
\* starts an iteration beyond the limit, an iteration executes at most three step
\* calls, and every step call of run adds one step to the trace, so that run makes
\* at most 3 * max_iterations step calls
C1_TerminatesWithinMaxIterations ==
    [] WithinMaxIterations /\ [][Len(steps') = Len(steps) + 1]_vars

\* a run that used every iteration and ended because the iterations ran out
C1_Witness ==
    /\ Done
    /\ driver = "v5"
    /\ current_iteration = config.max_iterations
    /\ termination_reason.kind = "max_iterations_reached"
    /\ NumOfType(steps, "Orchestration") = config.max_iterations
    /\ Len(steps) = 3 * config.max_iterations

\* C2: on every termination path the answer text returned to the caller is
\* non-empty
C2_AnswerNonEmpty == result.returned => result.content # <<>>

\* C3: no exception escapes run: run is always at one of its positions, it has
\* returned exactly when it is done, and what it returned holds the answer text,
\* the step trace, the iterations used and a termination reason
C3_NoExceptionEscapes ==
    /\ pc \in {"orchestration", "observation_direct", "action", "observation", "done"}
    /\ result.returned <=> Done
    /\ Done =>
          /\ final_answer.set
          /\ result.content = final_answer.text
          /\ result.steps = steps
          /\ result.iterations_used \in 1..MaxIterations
          /\ result.termination_reason = termination_reason
          /\ termination_reason.kind # ""

\* run returned although its step calls raised
C3_Witness ==
    /\ Done
    /\ result.returned
    /\ result.content = SystemErrorAnswer
    /\ \E i \in 1..Len(result.steps) : result.steps[i].type = "Error"

ActionIndexes(trace) == { i \in 1..Len(trace) : trace[i].type = "Action" }

\* the citation ids of the search results collected during the turn
CollectedIds(trace) ==
    LET results == CollectSearchResults(trace) IN
    { results[i].citation_id : i \in 1..Len(results) }

\* C4: every [n] marker in the final answer returned by run equals the citation_id
\* of a search result collected during that turn
C4_MarkersAreCollectedIds ==
    result.returned => Range(FindCitations(result.content)) \subseteq CollectedIds(steps)

HeaderIndexes(text) ==
    { i \in 1..Len(text) : text[i].k = "refhdr" }

LastHeader(text) == CHOOSE i \in HeaderIndexes(text) : \A j \in HeaderIndexes(text) : j <= i

\* the ids the references block lists, in order
BlockIds(text) == FindCitations(SubSeq(text, LastHeader(text) + 1, Len(text)))

\* the ids the answer cites before its references block
BodyCitedIds(text) == Range(FindCitations(SubSeq(text, 1, LastHeader(text) - 1)))

\* C5: the references block the final citation pass appends lists exactly the set of
\* ids cited in the answer: an entry for each cited id, none for an id that is not
\* cited, no id twice
C5_ReferencesListExactlyCited ==
    (result.returned /\ HeaderIndexes(result.content) # {}) =>
        /\ Range(BlockIds(result.content)) = BodyCitedIds(result.content)
        /\ Cardinality(Range(BlockIds(result.content))) = Len(BlockIds(result.content))

KeywordSet(step) == Range(step.search_keywords)

\* this step appends an Observation result that proposes retry keywords which are,
\* as a 3-element set, the keywords searched in an earlier iteration
ProposesSearchedKeywords ==
    /\ pc = "observation"
    /\ Len(steps') = Len(steps) + 1
    /\ LET o == Last(steps') IN
          /\ o.type = "Observation"
          /\ o.needs_retry
          /\ Cardinality(Range(o.retry_keywords)) = 3
          /\ \E i \in 1..(Len(steps) - 1) :
                /\ steps[i].type = "Action"
                /\ KeywordSet(steps[i]) = Range(o.retry_keywords)

\* C7 as stated: when Observation proposes retry keywords that are, as a 3-element
\* set, the keywords searched in an earlier iteration, the loop stops at that
\* iteration with reason "keyword repetition"
C7_StopsAtProposal ==
    [][ ProposesSearchedKeywords
        => (pc' = "done" /\ termination_reason'.kind = "safety"
                         /\ termination_reason'.reason = "keyword_repetition") ]_vars

\* the Observation step at position i proposes the keyword set K for a retry
ProposesKeywordSet(i, K) ==
    /\ steps[i].type = "Observation"
    /\ steps[i].needs_retry
    /\ Range(steps[i].retry_keywords) = K

\* the keyword sets of size > 2 that Observation steps of the trace proposed
ProposedKeywordSets ==
    { Range(steps[i].retry_keywords) :
          i \in { j \in 1..Len(steps) : /\ steps[j].type = "Observation"
                                        /\ steps[j].needs_retry
                                        /\ Cardinality(Range(steps[j].retry_keywords)) > 2 } }

\* the keyword set K was proposed twice and occurs a third time at position k, as
\* the keywords of the search made after the second proposal
ThirdOccurrence(K, k) ==
    /\ steps[k].type = "Action"
    /\ KeywordSet(steps[k]) = K
    /\ \E i, j \in 1..(k - 1) : i < j /\ ProposesKeywordSet(i, K) /\ ProposesKeywordSet(j, K)

\* C6: when a keyword set of size > 2 has been proposed twice, its third occurrence
\* makes the loop stop with reason "keyword repetition", whatever the Observation
\* of that iteration requests: no iteration is begun after the one of the third
\* occurrence and run returns with that termination reason
C6_StopsAtThirdOccurrence ==
    \A K \in ProposedKeywordSets : \A k \in 1..Len(steps) :
        ThirdOccurrence(K, k)
        => /\ \A m \in (k + 1)..Len(steps) : steps[m].type # "Orchestration"
           /\ pc = "done" => /\ termination_reason.kind = "safety"
                            /\ termination_reason.reason = "keyword_repetition"

\* the elements of a finite set of numbers in increasing order
SortedSet(S) ==
    LET RECURSIVE Asc(_)
        Asc(T) == IF T = {} THEN <<>>
                  ELSE LET m == CHOOSE x \in T : \A y \in T : x <= y
                       IN  <<m>> \o Asc(T \ {m})
    IN  Asc(S)

\* the search results of the k-th Action step of the trace
ActionResults(trace, k) ==
    LET idx == SortedSet(ActionIndexes(trace)) IN trace[idx[k]].search_results

AllScores(results, score) ==
    results # <<>> /\ \A i \in 1..Len(results) : results[i].score = score

\* a finished run of IntelligentReActAgent.run with max_iterations = 5 and an index
\* configured, of which the first four searches returned only scores of 0.1
FourLowSearches ==
    /\ driver = "v5" /\ Done
    /\ config.max_iterations = 5
    /\ config.kb_id # <<>>
    /\ NumOfType(steps, "Action") >= 4
    /\ \A k \in 1..4 : AllScores(ActionResults(steps, k), 10)

\* C8: when the searches of iterations 1 to 4 return only scores of 0.1 and the
\* search of iteration 5 scores of 0.25, the loop runs exactly 5 iterations (5
\* Orchestration, 5 Action and 5 Observation steps) and ends with the final answer
\* of the fifth Observation
C8_RunsFiveIterations ==
    FourLowSearches =>
        /\ NumOfType(steps, "Orchestration") = 5
        /\ NumOfType(steps, "Action") = 5
        /\ NumOfType(steps, "Observation") = 5
        /\ AllScores(ActionResults(steps, 5), 25) => Last(steps).is_final_answer

\* the average score of the results, as Python computes it, is at least avg hundredths
AverageAtLeast(results, avg) == ~ BigLess(avg_score(results), FromHundredths(avg))

\* the results pass the gate of the first iteration: average score >= 0.5, maximum
\* score >= 0.6, total content length >= 200
GatePass1(results) ==
    /\ results # <<>>
    /\ AverageAtLeast(results, 50)
    /\ \E i \in 1..Len(results) : results[i].score >= 60
    /\ SumSeq([i \in 1..Len(results) |-> results[i].content.len]) >= 200

\* C9: when the search of the first iteration returns results that pass the gate of
\* the first iteration, the Observation of that iteration has is_final_answer true and
\* the loop ends in exactly 1 iteration
C9_OneIterationOnGoodResults ==
    ( /\ driver = "v5"
      /\ Len(steps) >= 3
      /\ steps[2].type = "Action"
      /\ GatePass1(steps[2].search_results) )
    => /\ steps[3].type = "Observation"
       /\ steps[3].is_final_answer
       /\ Len(steps) = 3
       /\ Done
       /\ result.iterations_used = 1
       /\ result.content = steps[3].final_answer

C9_Witness ==
    /\ driver = "v5" /\ Done
    /\ Len(steps) = 3
    /\ steps[2].type = "Action"
    /\ GatePass1(steps[2].search_results)
    /\ Len(steps[2].search_results) = KB_max_results
    /\ steps[3].is_final_answer

\* the first Orchestration of the run decided that no search is needed
FirstDecisionNoSearch ==
    /\ Len(steps) >= 1
    /\ steps[1].type = "Orchestration"
    /\ ~ steps[1].needs_kb_search

StepTypes(trace) == [i \in 1..Len(trace) |-> trace[i].type]

\* C10: when the first Orchestration decides that no search is needed, the loop ends
\* in 1 iteration without an Action step and without a search: the trace of the
\* finished run is exactly one Orchestration step followed by one Observation step,
\* the answer is that Observation's, and for a greeting it is the greeting produced
\* by Observation
C10_NoSearchOnDirectAnswer ==
    FirstDecisionNoSearch =>
        /\ \A i \in 1..Len(steps) :
              steps[i].search_results = <<>> /\ steps[i].search_keywords = <<>>
        /\ Len(steps) <= 2
        /\ Done <=> Len(steps) = 2
        /\ Done =>
              /\ StepTypes(steps) = << "Orchestration", "Observation" >>
              /\ steps[2].is_final_answer
              /\ current_iteration = 1
              /\ result.iterations_used = 1
              /\ result.steps = steps
              /\ result.content = steps[2].final_answer
              /\ Obs_is_simple_greeting(context.original_query) =>
                    result.content = _generate_greeting_response(context.original_query)

C10_Witness ==
    /\ Done /\ driver = "v5"
    /\ FirstDecisionNoSearch
    /\ context.original_query = Q_hello
    /\ context.kb_id = <<>> /\ context.conversation_history = <<>>
    /\ Obs_is_simple_greeting(context.original_query)
    /\ StepTypes(steps) = << "Orchestration", "Observation" >>
    /\ result.content = _generate_greeting_response(context.original_query)
(***************************************************************************)
(* StrandsToolsManager.search_quality_assessor                             *)
(***************************************************************************)
search_quality_assessor(search_results, iteration) ==
    IF search_results = <<>>
    THEN [needs_retry |-> iteration < 5, is_sufficient |-> FALSE]
    ELSE
    LET min_avg_score == IF iteration <= 2 THEN 50 ELSE IF iteration <= 4 THEN 40 ELSE 20
        min_max_score == IF iteration <= 2 THEN 60 ELSE IF iteration <= 4 THEN 50 ELSE 30
        n == Len(search_results)
        max_score == MaxScore(search_results)
        total_content_length == SumSeq([i \in 1..n |-> search_results[i].content.len])
        is_sufficient == \/ /\ ~ BigLess(avg_score(search_results), FloatOfScore[min_avg_score])
                            /\ max_score >= min_max_score
                            /\ total_content_length >= 100
                         \/ iteration >= 5
    IN  [needs_retry |-> ~ is_sufficient /\ iteration < 5, is_sufficient |-> is_sufficient]

(***************************************************************************)
(* Single calls of the step functions.  driver is "call", context holds    *)
(* the function called (fn) and its arguments, and the call leaves what    *)
(* the function returned in result (an Orchestration step in steps).       *)
(***************************************************************************)
InitCalls ==
    LET \* results as search returns them, by score and content length: none, one, two;
        \* of the pairs, 0.35 and 0.65 have the float average 0.5 and 0.70 and 0.10
        \* the float average 0.39999999999999997
        GateDocs == { Doc(1, l, s) : l \in { 30, 60, 120, 250 },
                                     s \in { 10, 25, 35, 45, 55, 65 } }
        GateResults ==
            { <<>> } \cup { search(Kb, <<d>>) : d \in GateDocs }
                     \cup { search(Kb, <<d, Doc(2, 60, 45)>>) : d \in GateDocs }
                     \cup { search(Kb, <<d, Doc(2, 120, 65)>>) : d \in GateDocs }
                     \cup { search(Kb, <<Doc(2, 250, 70), d>>) : d \in GateDocs }
        GateCalls ==
            { [ fn |-> f, search_results |-> r, iteration |-> k,
                original_query |-> Q_company, search_keywords |-> <<Kw1>> ] :
                f \in { "_assess_search_quality",
                        "_analyze_search_results_with_enhanced_citation" },
                r \in GateResults, k \in 1..FinalIteration }
        \* search_quality_assessor taken from the class (the method) or from a
        \* manager (the tool that _create_tools stored under the same name)
        ToolCalls ==
            { [ fn |-> "search_quality_assessor", receiver |-> v, search_results |-> r,
                iteration |-> k ] :
                v \in { "class", "instance" }, r \in GateResults, k \in 1..FinalIteration }
        \* greetings as typed ("hello", "Hello", " hello there") and other queries
        Queries ==
            { Q_hello, << "H", "e", "l", "l", "o" >>,
              << " ", "h", "e", "l", "l", "o", " ", "t", "h", "e", "r", "e" >>,
              Q_then, Q_which, Q_company }
        OrchestrateCalls ==
            { [ fn |-> "orchestrate", original_query |-> q, conversation_history |-> h,
                kb_id |-> kb, retry_keywords |-> rk ] :
                q \in Queries, h \in { NoHistory, History }, kb \in { NoKb, BlankKb, Kb },
                rk \in { <<>>, <<Kw1, Kw2, Kw3>>, <<Kw4, Kw1>> } }
        \* what the index returns to one query: up to 3 results, some with the same
        \* first 100 characters as a result of another query, some with equal scores
        QueryResponses ==
            { <<>>, <<Doc(1, 120, 55), Doc(2, 80, 40), Doc(3, 120, 40)>>,
              <<Doc(1, 250, 65), Doc(4, 80, 30)>>, <<Doc(5, 120, 70), Doc(6, 60, 20)>>,
              <<Doc(2, 80, 45), Doc(7, 120, 60), Doc(5, 120, 10)>>,
              <<Doc(8, 30, 35), Doc(8, 250, 35), Doc(8, 30, 50)>> }
        SearchCalls ==
            { [ fn |-> "search_multiple_queries", kb_id |-> kb, queries |-> q,
                responses |-> <<r1, r2, r3>> ] :
                kb \in { Kb, BlankKb }, q \in { <<Kw1, Kw2, Kw3>>, <<Kw1, <<" ">>, Kw3>>, <<Kw4, Kw1>> },
                r1 \in QueryResponses, r2 \in QueryResponses, r3 \in QueryResponses }
        \* the Safety Controller as calls may find it, the iteration and the action
        Signatures == { <<t, k>> : t \in { "unknown", "Action" },
                                   k \in { <<>>, <<Kw1, Kw2, Kw3>> } }
        Controllers ==
            { [ max_iterations |-> m, used_keywords |-> u, repeated_actions |-> h,
                error_count |-> e ] :
                m \in ConfiguredMaxIterations,
                u \in { {}, { Kw1 }, { Kw1, Kw2, Kw3 }, { Kw1, Kw2, Kw3, Kw4 } },
                h \in { <<>> } \cup { <<s>> : s \in Signatures }
                              \cup { <<s, s>> : s \in Signatures }
                              \cup { <<s, <<"Action", <<Kw4, Kw1>>>>, s>> : s \in Signatures },
                e \in 0..(max_errors + 1) }
        ControllerCalls ==
            { [ fn |-> "should_continue", sc |-> c, iteration |-> i, action_type |-> t,
                search_keywords |-> k ] :
                c \in Controllers, i \in 1..(CDK_max_iterations + 1),
                t \in { "unknown", "Action" },
                k \in { <<>>, <<Kw1, Kw2, Kw3>>, <<Kw3, Kw2, Kw1>>, <<Kw1, Kw2>>,
                        <<Kw1, Kw1, Kw2>>, <<Kw2, Kw3, Kw4>> } }
        \* observe as run calls it: after an Orchestration step alone, or after the
        \* Orchestration and Action steps of a search, with the reply of the model call
        ObserveTraces(q, h, kb) ==
            { LET c == [original_query |-> q, conversation_history |-> h, kb_id |-> kb,
                        retry_keywords |-> <<>>]
                  o == orchestrate(c, kr)
              IN  IF o.needs_kb_search THEN <<o, act(c, <<o>>, Responses(scenario))>>
                  ELSE <<o>> : kr \in KeywordReplies, scenario \in Scenarios }
        ObserveCalls ==
            UNION { { [ fn |-> "observe", original_query |-> q, conversation_history |-> h,
                        kb_id |-> kb, previous_steps |-> t, reply |-> reply ] :
                        t \in ObserveTraces(q, h, kb), reply \in ModelReplies } :
                    q \in { Q_hello, Q_then, Q_company }, h \in { NoHistory, History },
                    kb \in { NoKb, BlankKb, Kb } }
    IN  /\ driver = "call"
        /\ config = [kb_id |-> NoKb, max_iterations |-> CDK_max_iterations, index |-> "any"]
        /\ context \in GateCalls \cup ToolCalls \cup OrchestrateCalls \cup SearchCalls
                        \cup ControllerCalls \cup ObserveCalls
        /\ steps = <<>>
        /\ pc = "call"
        /\ current_iteration = 0
        /\ safety_controller = SafetyController(CDK_max_iterations)
        /\ final_answer = None
        /\ termination_reason = NoReason
        /\ result = NoResult

Call_assess_search_quality ==
    /\ driver = "call" /\ pc = "call"
    /\ context.fn = "_assess_search_quality"
    /\ result' = _assess_search_quality(context.search_results, context.iteration)
    /\ pc' = "returned"
    /\ UNCHANGED << driver, config, context, steps, current_iteration, safety_controller,
                    final_answer, termination_reason >>

\* StrandsToolsManager.search_quality_assessor(manager, ...) runs the method.  On a
\* manager the attribute of the same name, which _create_tools sets and get_all_tools
\* hands out, hides the method: manager.search_quality_assessor(...) runs that tool,
\* which calls self._quality_assessment_impl, and the class defines no such method
Call_search_quality_assessor ==
    /\ driver = "call" /\ pc = "call"
    /\ context.fn = "search_quality_assessor"
    /\ IF context.receiver = "instance"
       THEN /\ result' = [exception |-> "AttributeError"]
            /\ pc' = "raised"
       ELSE /\ result' = search_quality_assessor(context.search_results, context.iteration)
            /\ pc' = "returned"
    /\ UNCHANGED << driver, config, context, steps, current_iteration, safety_controller,
                    final_answer, termination_reason >>

\* the Observation of a search, after context.iteration - 1 earlier Action steps
Call_analyze_search_results ==
    /\ driver = "call" /\ pc = "call"
    /\ context.fn = "_analyze_search_results_with_enhanced_citation"
    /\ \E reply \in ModelReplies :
          LET previous_steps == [i \in 1..(context.iteration - 1) |->
                                    [BlankStep EXCEPT !.type = "Action"]]
          IN  steps' = << _analyze_search_results_with_enhanced_citation(
                              context.search_results, context, context.search_keywords,
                              previous_steps, reply) >>
    /\ pc' = "returned"
    /\ UNCHANGED << driver, config, context, current_iteration, safety_controller,
                    final_answer, termination_reason, result >>

Call_orchestrate ==
    /\ driver = "call" /\ pc = "call"
    /\ context.fn = "orchestrate"
    /\ \E reply \in KeywordReplies : steps' = << orchestrate(context, reply) >>
    /\ pc' = "returned"
    /\ UNCHANGED << driver, config, context, current_iteration, safety_controller,
                    final_answer, termination_reason, result >>

Call_search_multiple_queries ==
    /\ driver = "call" /\ pc = "call"
    /\ context.fn = "search_multiple_queries"
    /\ result' = search_multiple_queries(context.kb_id, context.queries, context.responses)
    /\ pc' = "returned"
    /\ UNCHANGED << driver, config, context, steps, current_iteration, safety_controller,
                    final_answer, termination_reason >>

Call_should_continue ==
    /\ driver = "call" /\ pc = "call"
    /\ context.fn = "should_continue"
    /\ result' = should_continue(context.sc, context.iteration, context.action_type,
                                 context.search_keywords)
    /\ pc' = "returned"
    /\ UNCHANGED << driver, config, context, steps, current_iteration, safety_controller,
                    final_answer, termination_reason >>

\* observe(context, previous_steps) with context["previous_steps"] set to the trace
Call_observe ==
    /\ driver = "call" /\ pc = "call"
    /\ context.fn = "observe"
    /\ steps' = << observe(context, context.previous_steps, context.previous_steps,
                           context.reply) >>
    /\ pc' = "returned"
    /\ UNCHANGED << driver, config, context, current_iteration, safety_controller,
                    final_answer, termination_reason, result >>

CallNext ==
    \/ Call_assess_search_quality
    \/ Call_search_quality_assessor
    \/ Call_analyze_search_results
    \/ Call_orchestrate
    \/ Call_search_multiple_queries
    \/ Call_should_continue
    \/ Call_observe

SpecCalls == InitCalls /\ [][CallNext]_vars

Returned(fn) == driver = "call" /\ pc = "returned" /\ context.fn = fn

\* the gate the function fn applies to the results at iteration k judges them
\* sufficient
Sufficient(fn, search_results, k) ==
    IF fn = "_assess_search_quality"
    THEN ~ _assess_search_quality(search_results, k).needs_retry
    ELSE ~ search_quality_assessor(search_results, k).needs_retry

\* C11: the quality gate relaxes as the iteration count goes from 1 to 5: the
\* thresholds of the later tiers are not above those of the earlier tiers and those
\* of the last tier are below those of the first, and a result set judged sufficient
\* at iteration k is judged sufficient at every later iteration
C11_GateRelaxes ==
    /\ min_avg_score_high >= min_avg_score_mid /\ min_avg_score_mid >= min_avg_score_low
    /\ min_max_score_high >= min_max_score_mid /\ min_max_score_mid >= min_max_score_low
    /\ min_content_length_high >= min_content_length_mid
    /\ min_content_length_mid >= min_content_length_low
    /\ min_avg_score_high > min_avg_score_low
    /\ min_max_score_high > min_max_score_low
    /\ min_content_length_high > min_content_length_low
    /\ \A fn \in { "_assess_search_quality", "search_quality_assessor" } :
          (Returned(fn) /\ ~ result.needs_retry) =>
              \A k \in 1..FinalIteration :
                  k > context.iteration => Sufficient(fn, context.search_results, k)

\* a non-empty result set was rejected at iteration 1 and is accepted at iteration 3
C11_Witness ==
    /\ Returned("_assess_search_quality")
    /\ context.search_results # <<>>
    /\ context.iteration = 3
    /\ ~ result.needs_retry
    /\ ~ Sufficient("_assess_search_quality", context.search_results, 1)

TotalContentLength(search_results) ==
    SumSeq([i \in 1..Len(search_results) |-> search_results[i].content.len])

\* C12: at iteration 5 the quality gate accepts every non-empty result set with at
\* least the minimal content length, and the Observation of that iteration gives a
\* final answer instead of asking for a retry
C12_FinalIterationAccepts ==
    /\ \A fn \in { "_assess_search_quality", "search_quality_assessor" } :
          ( /\ Returned(fn)
            /\ context.iteration = 5
            /\ context.search_results # <<>>
            /\ TotalContentLength(context.search_results) >= min_content_length_low )
          => ~ result.needs_retry
    /\ ( /\ Returned("_analyze_search_results_with_enhanced_citation")
         /\ context.iteration = 5
         /\ TotalContentLength(context.search_results) >= min_content_length_low )
       => /\ steps[1].is_final_answer
          /\ ~ steps[1].needs_retry
          /\ steps[1].final_answer # <<>>

\* a single result of score 0.10 and 60 characters, rejected at iteration 4, is
\* answered from at iteration 5
C12_Witness ==
    /\ Returned("_analyze_search_results_with_enhanced_citation")
    /\ context.iteration = 5
    /\ Len(context.search_results) = 1
    /\ context.search_results[1].score = 10
    /\ TotalContentLength(context.search_results) = 60
    /\ steps[1].is_final_answer
    /\ ~ steps[1].error
    /\ Sufficient("_assess_search_quality", context.search_results, 5)
    /\ ~ Sufficient("_assess_search_quality", context.search_results, 4)

GreetingCall ==
    /\ Returned("orchestrate")
    /\ Strip(Lower(context.original_query)) = Q_hello
    /\ context.conversation_history = NoHistory

\* C13: Orchestration called on the greeting "hello" with an empty conversation
\* history returns needs_search = false with confidence 0.9, and returns the same
\* result whatever the index id and the retry keywords of the context are
C13_GreetingNeedsNoSearch ==
    GreetingCall =>
        /\ ~ steps[1].needs_kb_search
        /\ steps[1].search_keywords = <<>>
        /\ steps[1].confidence >= 90
        /\ ~ steps[1].error
        /\ \A kb \in { NoKb, BlankKb, Kb }, rk \in { <<>>, <<Kw1, Kw2, Kw3>>, <<Kw4, Kw1>> },
              reply \in KeywordReplies :
              orchestrate([context EXCEPT !.kb_id = kb, !.retry_keywords = rk], reply)
                  = steps[1]

\* "hello" was orchestrated with the index configured and retry keywords present
C13_Witness ==
    /\ GreetingCall
    /\ context.original_query = Q_hello
    /\ context.kb_id = Kb
    /\ context.retry_keywords = <<Kw1, Kw2, Kw3>>
    /\ steps[1].type = "Orchestration"
    /\ steps[1].rule_applied = "direct_answer"

(***************************************************************************)
(* Citation ids of the search results                                      *)
(***************************************************************************)
ResultIds(step) == { step.search_results[i].citation_id : i \in 1..Len(step.search_results) }

\* C14: within the output of one Action step the citation_id values of the search
\* results are pairwise distinct and are exactly 1..n for n results
C14_CitationIdsContiguous ==
    \A a \in ActionIndexes(steps) :
        LET results == steps[a].search_results IN
        /\ \A i, j \in 1..Len(results) :
               i # j => results[i].citation_id # results[j].citation_id
        /\ ResultIds(steps[a]) = 1..Len(results)

\* C15: across the searches of one turn no citation id is reused: every result of a
\* later search has an id greater than every id of an earlier search
C15_CitationIdsNeverReused ==
    \A a, b \in ActionIndexes(steps) :
        a < b => \A m \in ResultIds(steps[a]), n \in ResultIds(steps[b]) : m < n

(***************************************************************************)
(* The decisions of the loop after an Observation                          *)
(***************************************************************************)
\* an Observation step that reports a final answer
ReportsFinalAnswer(step) == step.type = "Observation" /\ step.is_final_answer

IsPrefix(s, t) == Len(s) <= Len(t) /\ SubSeq(t, 1, Len(s)) = s

StoppedAtFinalAnswer(i) ==
    /\ i = Len(steps)
    /\ Done
    /\ result.returned
    /\ result.steps = steps
    /\ result.iterations_used = current_iteration
    /\ termination_reason.kind \in { "completed_after_iterations", "answered_without_kb_search" }

\* the step that appends a final Observation does not consult the Safety Controller:
\* the keywords and action signatures it keeps are left as they were
FinalAnswerSkipsSafetyCheck ==
    (steps' # steps /\ ReportsFinalAnswer(Last(steps'))) =>
        /\ safety_controller'.used_keywords = safety_controller.used_keywords
        /\ safety_controller'.repeated_actions = safety_controller.repeated_actions

\* C16: once an Observation reports a final answer the loop stops: that Observation is
\* the last step of the trace, run has returned without consulting the Safety
\* Controller, and the answer run returns is that Observation's final answer
C16_StopsAtFinalAnswer ==
    /\ [](\A i \in 1..Len(steps) :
            ReportsFinalAnswer(steps[i]) =>
                /\ StoppedAtFinalAnswer(i)
                /\ result.content = steps[i].final_answer)
    /\ [][FinalAnswerSkipsSafetyCheck]_vars

\* run returned the final answer of the Observation of its second search
C16_Witness ==
    /\ driver = "v5" /\ Done
    /\ StepTypes(steps) = << "Orchestration", "Action", "Observation",
                             "Orchestration", "Action", "Observation" >>
    /\ ReportsFinalAnswer(Last(steps))
    /\ Last(steps).final_answer # <<>>
    /\ result.content = Last(steps).final_answer

\* steps[j] is the Observation of a search (Orchestration asked for it, Action made
\* it) that asks for a retry with keywords and is not a final answer
ReportsRetryWithKeywords(j) ==
    /\ steps[j].type = "Observation"
    /\ steps[j].needs_retry
    /\ steps[j].retry_keywords # <<>>
    /\ ~ ReportsFinalAnswer(steps[j])
    /\ j > 2
    /\ steps[j - 1].type = "Action"
    /\ steps[j - 2].type = "Orchestration" /\ steps[j - 2].needs_kb_search

\* the step after the retry Observation steps[j] is an Orchestration step kb_retry
\* with exactly its keywords
OrchestrationReuses(j) ==
    /\ steps[j + 1].type = "Orchestration"
    /\ steps[j + 1].needs_kb_search
    /\ steps[j + 1].rule_applied = "kb_retry"
    /\ steps[j + 1].search_keywords = steps[j].retry_keywords

\* the second step after it is an Action step that searched with them
ActionReuses(j) ==
    /\ steps[j + 2].type = "Action"
    /\ steps[j + 2].search_keywords = steps[j].retry_keywords

RetryKeywordsReused(j) ==
    /\ j + 1 <= Len(steps) => OrchestrationReuses(j)
    /\ j + 2 <= Len(steps) => ActionReuses(j)

\* C17: after a retry Observation with keywords in iteration
\* i < max_iterations the keywords are in the context, iteration i + 1 is executed,
\* and its Orchestration and Action steps use exactly these keywords
C17_RetryAlwaysRunsNextIteration ==
    \A j \in 1..Len(steps) :
        ReportsRetryWithKeywords(j) =>
            /\ (j = Len(steps) /\ current_iteration < MaxIterations) =>
                   /\ context.retry_keywords = steps[j].retry_keywords
                   /\ pc = "orchestration"
            /\ RetryKeywordsReused(j)

\* a run searched in its next iteration with the keywords Observation proposed
C17_Witness ==
    \E j \in 1..Len(steps) :
        /\ ReportsRetryWithKeywords(j)
        /\ j + 2 <= Len(steps)
        /\ steps[j + 1].rule_applied = "kb_retry"
        /\ steps[j + 2].type = "Action"
        /\ steps[j + 2].search_keywords = steps[j].retry_keywords
        /\ steps[j + 2].search_keywords # steps[j - 1].search_keywords

\* C19: an exception raised by a step is recorded as an Error step and counted toward
\* the consecutive-error budget (3), and the loop goes on with the next iteration
\* unless the Safety Controller stops it by its error budget or its iteration cap
C19_LoopGoesOnAfterError ==
    (steps # <<>> /\ Last(steps).type = "Error") =>
        /\ Last(steps).error
        /\ Last(steps).iteration_count = current_iteration
        /\ safety_controller.error_count >= 1
        /\ \/ pc = "orchestration"
           \/ /\ Done
              /\ termination_reason.kind = "safety"
              /\ \/ /\ termination_reason.reason = "max_errors"
                    /\ safety_controller.error_count >= 3
                 \/ /\ termination_reason.reason = "max_iterations"
                    /\ current_iteration >= MaxIterations

\* the loop went on to its next iteration after the Error step of an exception, and
\* the next exception was recorded and counted too
C19_Witness ==
    /\ driver = "cdk"
    /\ pc = "orchestration"
    /\ StepTypes(steps) = << "Error", "Error" >>
    /\ current_iteration = 2
    /\ safety_controller.error_count = 2

(***************************************************************************)
(* The order of the steps in the trace                                     *)
(***************************************************************************)
\* the step types that may directly follow a step of the given type: within an
\* iteration Orchestration, Action, Observation in this order, each at most once
\* (an Error step ends the iteration it is raised in), then the next iteration
MayFollow(type) ==
    CASE type = "Orchestration" -> { "Action", "Observation", "Error" }
      [] type = "Action"        -> { "Observation", "Error" }
      [] type = "Observation"   -> { "Orchestration", "Error" }
      [] type = "Error"         -> { "Orchestration", "Error" }

InIterationOrder(trace) ==
    /\ trace # <<>> => trace[1].type \in { "Orchestration", "Error" }
    /\ \A k \in 1..(Len(trace) - 1) : trace[k + 1].type \in MayFollow(trace[k].type)

\* the iterations begun: each begins with its Orchestration step, or with the Error
\* step of an Orchestration call that raised
IterationsBegun(trace) ==
    Cardinality({ k \in 1..Len(trace) :
                    \/ trace[k].type = "Orchestration"
                    \/ /\ trace[k].type = "Error"
                       /\ (k = 1 \/ trace[k - 1].type \in { "Observation", "Error" }) })

\* one step of run: the iteration counter stays or goes up by one, and the trace
\* stays or gets one step appended
StepsAreAppended ==
    /\ current_iteration' \in { current_iteration, current_iteration + 1 }
    /\ \/ steps' = steps
       \/ /\ Len(steps') = Len(steps) + 1
          /\ SubSeq(steps', 1, Len(steps)) = steps
    /\ result.returned => result' = result

\* C20: the steps of an iteration are recorded in the order Orchestration, Action,
\* Observation, at most one of each, the iterations follow one another in increasing
\* order, and the trace run returns is the list of the steps in the order they were
\* emitted, nothing reordered, dropped or deduplicated
C20_TraceKeepsStepOrder ==
    /\ [](/\ InIterationOrder(steps)
          /\ IterationsBegun(steps) = current_iteration
          /\ Done => (result.returned /\ result.steps = steps))
    /\ [][StepsAreAppended]_vars

\* a run returned the trace of two whole iterations
C20_Witness ==
    /\ Done
    /\ current_iteration = 2
    /\ Len(result.steps) = 6
    /\ [k \in 1..6 |-> result.steps[k].type] =
           << "Orchestration", "Action", "Observation",
              "Orchestration", "Action", "Observation" >>
    /\ result.steps[4] # result.steps[1]

(***************************************************************************)
(* Failures of the synthesis call                                          *)
(***************************************************************************)
\* run returned the generic apology of a synthesis call that failed: the last step is
\* the erroneous Observation of a search that returned results
ReturnedApology ==
    /\ Done /\ result.returned /\ result.content = Apology
    /\ Len(steps) >= 3
    /\ Last(steps).type = "Observation" /\ Last(steps).error
    /\ steps[Len(steps) - 1].type = "Action"
    /\ steps[Len(steps) - 1].search_results # <<>>

\* C21: the user sees the generic apology of a failed synthesis call only when the
\* Safety Controller's error budget is exhausted: a run that returns it has counted
\* max_errors consecutive errors and was stopped by the controller for that reason
C21_ApologyOnlyAfterErrorBudget ==
    ReturnedApology =>
        /\ safety_controller.error_count >= max_errors
        /\ termination_reason.kind = "safety"
        /\ termination_reason.reason = "max_errors"

(***************************************************************************)
(* The multi-query search                                                  *)
(***************************************************************************)
\* the positions <<q, i>> of the results the index gave to the queries that were
\* searched (blank queries are skipped, and nothing is searched without an index id)
IndexPositions ==
    IF ~ is_kb_enabled(context.kb_id) THEN {}
    ELSE { <<q, i>> \in (1..Len(context.queries)) \X (1..3) :
             Strip(context.queries[q]) # <<>> /\ i <= Len(context.responses[q]) }

IndexResult(p) == context.responses[p[1]][p[2]]

IndexResults == { IndexResult(p) : p \in IndexPositions }

Earlier(p, r) == p[1] < r[1] \/ (p[1] = r[1] /\ p[2] < r[2])

\* the deduplicated set: the first result of each class of contents with the same
\* first 100 characters, in the order the queries are searched
FirstOccurrences ==
    { p \in IndexPositions :
        ~ \E r \in IndexPositions :
              /\ Earlier(r, p)
              /\ ContentPrefix100(IndexResult(r).content) = ContentPrefix100(IndexResult(p).content) }

IsResultOf(x, p) ==
    /\ x.content = IndexResult(p).content
    /\ x.score = IndexResult(p).score
    /\ x.query = context.queries[p[1]]

\* C22: the multi-query search returns a list in which no two results share the first
\* 100 characters of content, in descending score order, of at most 5 results: the 5
\* best-scoring of the deduplicated set (all of it when it has at most 5 results)
C22_DeduplicatedSortedCapped ==
    Returned("search_multiple_queries") =>
        /\ \A i, j \in 1..Len(result) :
               i # j => ContentPrefix100(result[i].content) # ContentPrefix100(result[j].content)
        /\ \A i, j \in 1..Len(result) : i < j => result[i].score >= result[j].score
        /\ Len(result) <= 5
        /\ \A i \in 1..Len(result) : \E p \in FirstOccurrences : IsResultOf(result[i], p)
        /\ \A p \in FirstOccurrences :
               \/ \E i \in 1..Len(result) : IsResultOf(result[i], p)
               \/ /\ Len(result) = 5
                  /\ \A i \in 1..Len(result) : result[i].score >= IndexResult(p).score

\* a search whose three queries gave 9 results, two of them duplicates by their first
\* 100 characters and more than 5 left after deduplication
C22_Witness ==
    /\ Returned("search_multiple_queries")
    /\ Len(context.responses[1]) + Len(context.responses[2]) + Len(context.responses[3]) > 6
    /\ Cardinality({ ContentPrefix100(x.content) : x \in IndexResults }) > 5
    /\ Cardinality({ ContentPrefix100(x.content) : x \in IndexResults })
           < Cardinality(IndexResults)
    /\ Len(result) = 5
    /\ result[1].score > result[5].score

(***************************************************************************)
(* The rules of should_continue                                            *)
(***************************************************************************)
\* the conditions of the four rules on the arguments of the call
Rule1 == context.iteration >= context.sc.max_iterations

Rule2 == context.sc.error_count >= 3

KeywordsOfCall == { context.search_keywords[i] : i \in 1..Len(context.search_keywords) }

Rule3 ==
    /\ Cardinality(KeywordsOfCall) > 2
    /\ KeywordsOfCall \subseteq context.sc.used_keywords

SignatureOfCall == <<context.action_type, context.search_keywords>>

Rule4 ==
    Cardinality({ i \in 1..Len(context.sc.repeated_actions) :
                    context.sc.repeated_actions[i] = SignatureOfCall }) >= 2

Stops(reason) == ~ result.continue /\ result.reason = reason

\* C23: should_continue evaluates its rules in the order max-iterations,
\* consecutive-errors, keyword-repetition, action-repetition, and the first rule
\* whose condition holds decides the result and the reason
C23_FirstRuleWins ==
    Returned("should_continue") =>
        /\ Rule1 => Stops("max_iterations")
        /\ (~ Rule1 /\ Rule2) => Stops("max_errors")
        /\ (~ Rule1 /\ ~ Rule2 /\ Rule3) => Stops("keyword_repetition")
        /\ (~ Rule1 /\ ~ Rule2 /\ ~ Rule3 /\ Rule4) => Stops("action_repeated")
        /\ (~ Rule1 /\ ~ Rule2 /\ ~ Rule3 /\ ~ Rule4) =>
               (result.continue /\ result.reason = "")

\* the iteration cap is reached while the error budget is used up and both
\* repetition rules would fire: the stop is the max-iterations stop
C23_Witness ==
    /\ Returned("should_continue")
    /\ context.iteration = context.sc.max_iterations
    /\ Rule2 /\ Rule3 /\ Rule4
    /\ Stops("max_iterations")

\* C24: when rules 1 and 2 do not fire, should_continue stops with "keyword
\* repetition" exactly when the keyword set of the action has more than 2 elements
\* that are all in the used-keyword set; otherwise the keyword set is merged into the
\* used set
C24_KeywordRepetitionRule ==
    (Returned("should_continue") /\ ~ Rule1 /\ ~ Rule2) =>
        /\ Stops("keyword_repetition") <=> Rule3
        /\ Rule3 => result.sc.used_keywords = context.sc.used_keywords
        /\ ~ Rule3 =>
               result.sc.used_keywords = context.sc.used_keywords \cup KeywordsOfCall

\* three keywords of which one is new: no keyword-repetition stop, and the new
\* keyword is in the used set after the call
C24_Witness ==
    /\ Returned("should_continue") /\ ~ Rule1 /\ ~ Rule2
    /\ Cardinality(KeywordsOfCall) = 3
    /\ Cardinality(KeywordsOfCall \cap context.sc.used_keywords) = 2
    /\ result.continue
    /\ Kw4 \in result.sc.used_keywords /\ Kw4 \notin context.sc.used_keywords

\* C25: when rules 1 to 3 do not fire, should_continue stops with "action repeated"
\* exactly when the signature of the action (type and keyword list) occurs at least
\* 2 times in the history; otherwise it appends the signature and continues
C25_ActionRepetitionRule ==
    (Returned("should_continue") /\ ~ Rule1 /\ ~ Rule2 /\ ~ Rule3) =>
        /\ Stops("action_repeated") <=> Rule4
        /\ Rule4 => result.sc.repeated_actions = context.sc.repeated_actions
        /\ ~ Rule4 =>
               /\ result.continue
               /\ result.sc.repeated_actions =
                      Append(context.sc.repeated_actions, SignatureOfCall)

\* the third occurrence of a signature stops the loop
C25_Witness ==
    /\ Returned("should_continue") /\ ~ Rule1 /\ ~ Rule2 /\ ~ Rule3
    /\ Rule4
    /\ context.search_keywords # <<>>
    /\ Stops("action_repeated")

(***************************************************************************)
(* The consecutive-error counter                                           *)
(***************************************************************************)
\* the number of steps at the end of the trace that carry the error flag
RECURSIVE TrailingErrors(_)
TrailingErrors(trace) ==
    IF trace = <<>> \/ ~ Last(trace).error THEN 0
    ELSE 1 + TrailingErrors(SubSeq(trace, 1, Len(trace) - 1))

\* C26: after each step the Loop Driver increments the consecutive-error counter when
\* the step's result carries the error flag and resets it when it does not: the
\* counter is the number of erroring steps at the end of the trace, and the
\* controller's error stop comes with max_errors of them
C26_CounterFollowsErrorFlags ==
    /\ safety_controller.error_count = TrailingErrors(steps)
    /\ (Done /\ termination_reason.kind = "safety"
             /\ termination_reason.reason = "max_errors") =>
           TrailingErrors(steps) >= max_errors

(***************************************************************************)
(* The tiers of the quality gate                                           *)
(***************************************************************************)
\* the sum of the scores as decimals, in hundredths
DecimalSum(search_results) ==
    SumSeq([i \in 1..Len(search_results) |-> search_results[i].score])

\* the three thresholds of a tier on a non-empty result set: average score (in
\* hundredths), maximum score and total content length
TierMet(search_results, avg, max, floor) ==
    /\ AverageAtLeast(search_results, avg)
    /\ MaxScore(search_results) >= max
    /\ TotalContentLength(search_results) >= floor

\* C27: for a non-empty result set at iteration k <= 4 the quality gate reports
\* sufficient (no retry) exactly when the three thresholds of the tier of k are met:
\* average >= 0.5, maximum >= 0.6 and the high content floor (200 characters; 100 in
\* search_quality_assessor) for k <= 2, average >= 0.4, maximum >= 0.5 and the mid
\* content floor (150; 100) for 3 <= k <= 4.  The average is the float avg_score of
\* the gate; it is on the same side of a threshold as the average of the decimal
\* scores unless that average is the threshold itself
C27_TierThresholds ==
    /\ \A fn \in { "_assess_search_quality", "search_quality_assessor" }, avg \in { 40, 50 } :
          (Returned(fn) /\ context.search_results # <<>>) =>
              /\ DecimalSum(context.search_results) > avg * Len(context.search_results)
                     => AverageAtLeast(context.search_results, avg)
              /\ DecimalSum(context.search_results) < avg * Len(context.search_results)
                     => ~ AverageAtLeast(context.search_results, avg)
    /\ ( /\ Returned("_assess_search_quality")
         /\ context.search_results # <<>> /\ context.iteration <= 4 ) =>
           ( ~ result.needs_retry <=>
                 IF context.iteration <= 2
                 THEN TierMet(context.search_results, 50, 60, 200)
                 ELSE TierMet(context.search_results, 40, 50, 150) )
    /\ ( /\ Returned("search_quality_assessor")
         /\ context.search_results # <<>> /\ context.iteration <= 4 ) =>
           /\ result.is_sufficient = ~ result.needs_retry
           /\ result.is_sufficient <=>
                 IF context.iteration <= 2
                 THEN TierMet(context.search_results, 50, 60, 100)
                 ELSE TierMet(context.search_results, 40, 50, 100)

\* two results with average score 0.45, maximum 0.65 and 150 characters in all pass
\* the gate at iteration 3 on the thresholds of the middle tier, which they meet,
\* and miss those of the first tier
C27_Witness ==
    /\ Returned("_assess_search_quality")
    /\ context.iteration = 3
    /\ Len(context.search_results) = 2
    /\ TotalContentLength(context.search_results) = 150
    /\ context.search_results[1].score + context.search_results[2].score = 90
    /\ ~ result.needs_retry
    /\ ~ Sufficient("_assess_search_quality", context.search_results, 2)

\* C28: at iteration k >= 5 the quality gate still requires average score >= 0.2,
\* maximum score >= 0.3 and total content length >= the low content floor (50
\* characters): a non-empty result set that misses one of the three is judged
\* insufficient
C28_FinalTierThresholds ==
    \A fn \in { "_assess_search_quality", "search_quality_assessor" } :
        ( /\ Returned(fn)
          /\ context.search_results # <<>> /\ context.iteration >= 5
          /\ ~ TierMet(context.search_results, 20, 30, 50) )
        => result.needs_retry

(***************************************************************************)
(* Observation of a search without results, and of the last iteration      *)
(***************************************************************************)
\* the iteration in which step j of the trace was executed
IterationOfStep(j) ==
    Cardinality({ i \in 1..j : steps[i].type = "Orchestration" })

\* step j is the Observation of a search that returned no result and no error
ObservesEmptySearch(j) ==
    /\ j > 1 /\ j <= Len(steps)
    /\ steps[j].type = "Observation"
    /\ steps[j - 1].type = "Action"
    /\ steps[j - 1].search_results = <<>>
    /\ ~ steps[j - 1].parsed_error /\ ~ steps[j - 1].error

\* C29: when the search of iteration k returns zero results without error,
\* Observation judges the evidence insufficient and reports needs_retry with retry
\* keywords, unless k >= max_iterations
C29_EmptySearchAsksRetry ==
    \A j \in 1..Len(steps) :
        (ObservesEmptySearch(j) /\ IterationOfStep(j) < config.max_iterations) =>
            /\ steps[j].needs_retry
            /\ steps[j].retry_keywords # <<>>
            /\ ~ steps[j].is_final_answer

\* step j is the Observation of a search that returned results
ObservesResults(j) ==
    /\ j > 1 /\ j <= Len(steps)
    /\ steps[j].type = "Observation"
    /\ steps[j - 1].type = "Action"
    /\ steps[j - 1].search_results # <<>>
    /\ ~ steps[j - 1].parsed_error

\* C30: for every configured max_iterations, the Observation of iteration k gives a
\* final answer when the evidence is sufficient or k has reached max_iterations, and
\* asks for a retry only when the evidence is insufficient and k is below
\* max_iterations; the last allowed iteration ends with a synthesized answer
C30_LastIterationSynthesizes ==
    \A j \in 1..Len(steps) :
        ObservesResults(j) =>
            LET k == IterationOfStep(j)
                sufficient == Sufficient("_assess_search_quality",
                                         steps[j - 1].search_results, k)
            IN  /\ (sufficient \/ k >= config.max_iterations) =>
                       (steps[j].is_final_answer /\ ~ steps[j].needs_retry)
                /\ steps[j].needs_retry =>
                       (~ sufficient /\ k < config.max_iterations)

(***************************************************************************)
(* Attribution of answers built from search results                        *)
(***************************************************************************)
\* the answer text holds no [n] marker written by the model
WithoutMarker(text) == \A i \in 1..Len(text) : text[i].k # "cite"

\* C31: after synthesis, whenever the answer text of the model holds no [n] marker
\* and search results exist, Observation appends a reference list to the answer: no
\* answer built from search results leaves Observation without attribution
C31_UncitedAnswerGetsReferences ==
    ( /\ Returned("_analyze_search_results_with_enhanced_citation")
      /\ steps[1].is_final_answer /\ ~ steps[1].error
      /\ WithoutMarker(steps[1].final_answer) )
    => \A n \in 1..Len(context.search_results) :
           \E i \in 1..Len(steps[1].final_answer) :
               steps[1].final_answer[i] = Tok("ref", n)

(***************************************************************************)
(* Failures of the model calls of Observation                              *)
(***************************************************************************)
\* the paths of observe that call the model, by the steps observe is given
ObservedAction == LastOfType(context.previous_steps, "Action")

\* no Action step, or a search without results and without error: a direct or
\* continuation answer, unless the query is a greeting
DirectAnswerPath ==
    /\ \/ ObservedAction.type = ""
       \/ (ObservedAction.search_results = <<>> /\ ~ ObservedAction.parsed_error)
    /\ ~ Obs_is_simple_greeting(context.original_query)

\* a search with results that pass the quality gate: synthesis
SynthesisPath ==
    /\ ObservedAction.type = "Action"
    /\ ObservedAction.search_results # <<>> /\ ~ ObservedAction.parsed_error
    /\ Sufficient("_assess_search_quality", ObservedAction.search_results,
                  NumOfType(context.previous_steps, "Action") + 1)

\* an Action step with the error flag: the search-failure answer
SearchFailurePath == ObservedAction.type = "Action" /\ ObservedAction.parsed_error

\* C32: every failure of a model call inside Observation (synthesis, direct
\* answer, continuation answer, search-failure answer) is converted into an
\* Observation result with is_final_answer true, needs_retry false, the error flag
\* set and the generic apology as final answer; observe always returns a result
C32_ModelFailureIsFinalApology ==
    Returned("observe") =>
        /\ Len(steps) = 1 /\ steps[1].type = "Observation"
        /\ ( /\ context.reply.raises
             /\ (DirectAnswerPath \/ SynthesisPath \/ SearchFailurePath) ) =>
               /\ steps[1].is_final_answer
               /\ ~ steps[1].needs_retry
               /\ steps[1].retry_keywords = <<>>
               /\ steps[1].error
               /\ steps[1].final_answer = <<Tok("apology_processing_error", 0)>>

\* the synthesis call over two good results failed and the apology is final
C32_Witness ==
    /\ Returned("observe")
    /\ context.reply.raises
    /\ SynthesisPath
    /\ Len(ObservedAction.search_results) >= 2
    /\ steps[1].is_final_answer /\ steps[1].error
    /\ steps[1].final_answer = Apology

(***************************************************************************)
(* The decision rules of Orchestration                                     *)
(***************************************************************************)
ContinuationRule ==
    _is_conversation_continuation(context.original_query, context.conversation_history)

GreetingRule == Orch_is_simple_greeting(context.original_query)

NoSearchDecision ==
    /\ ~ steps[1].needs_kb_search
    /\ steps[1].search_keywords = <<>>
    /\ steps[1].rule_applied = "direct_answer"

\* C33: Orchestration applies its rules in the order continuation, greeting, no
\* index configured, retry in progress, default keyword generation, and the first
\* rule that matches decides alone: continuation and greeting give needs_search
\* false whatever the index id and the retry keywords are, a missing index gives
\* needs_search false whatever the retry keywords are, and otherwise the result has
\* needs_search true with a non-empty keyword list (the retry keywords when present)
C33_FirstOrchestrationRuleWins ==
    Returned("orchestrate") =>
        /\ ContinuationRule => NoSearchDecision
        /\ (~ ContinuationRule /\ GreetingRule) => NoSearchDecision
        /\ (~ ContinuationRule /\ ~ GreetingRule /\ context.kb_id = <<>>) => NoSearchDecision
        /\ (~ ContinuationRule /\ ~ GreetingRule /\ context.kb_id # <<>>) =>
               /\ steps[1].needs_kb_search
               /\ steps[1].search_keywords # <<>>
               /\ IF context.retry_keywords # <<>>
                  THEN /\ steps[1].rule_applied = "kb_retry"
                       /\ steps[1].search_keywords = context.retry_keywords
                  ELSE steps[1].rule_applied = "kb_priority"

\* a short continuation question with a history, an index and retry keywords in the
\* context: no search
C33_Witness ==
    /\ Returned("orchestrate")
    /\ ContinuationRule /\ ~ GreetingRule
    /\ context.kb_id = Kb
    /\ context.retry_keywords = <<Kw1, Kw2, Kw3>>
    /\ NoSearchDecision

(***************************************************************************)
(* Consultation of the Safety Controller between searches                  *)
(***************************************************************************)
\* step i is an Action step that executed a search with keywords
ExecutedSearch(i) ==
    /\ steps[i].type = "Action"
    /\ ~ steps[i].parsed_error /\ ~ steps[i].error
    /\ steps[i].search_keywords # <<>>

\* C34: in every iteration that runs a search and does not end on a final answer
\* the Loop Driver consults the Safety Controller before the next iteration starts,
\* retries with keywords included: when another search is executed, the keywords of
\* every earlier search of the run are in the controller's used-keyword set
C34_ControllerSeesEverySearch ==
    \A i, j \in 1..Len(steps) :
        (i < j /\ ExecutedSearch(i) /\ ExecutedSearch(j)) =>
            Range(steps[i].search_keywords) \subseteq safety_controller.used_keywords

(***************************************************************************)
(* The iteration number of the quality gate                                *)
(***************************************************************************)
\* C35: the iteration number that Observation feeds into the quality gate equals the
\* number of the loop iteration in which it runs: 1 in the first iteration of run
\* and k in the k-th
C35_GateIterationIsLoopIteration ==
    \A j \in 1..Len(steps) :
        (ObservesResults(j) /\ ~ steps[j].error) =>
            steps[j].iteration_count = IterationOfStep(j)

(***************************************************************************)
(* The two outcomes of an Observation step                                 *)
(***************************************************************************)
\* exactly one of is_final_answer and needs_retry, and keywords with every retry
FinalOrRetry(step) ==
    /\ step.is_final_answer # step.needs_retry
    /\ step.needs_retry => step.retry_keywords # <<>>

\* C36: every result returned by observe has exactly one of is_final_answer and
\* needs_retry set, with a non-empty retry keyword list whenever needs_retry is set;
\* hence after each Observation step the Loop Driver either stops with the final
\* answer or starts a retry with the keywords
C36_ObservationEndsOrRetries ==
    /\ \A j \in 1..Len(steps) : steps[j].type = "Observation" => FinalOrRetry(steps[j])
    /\ (steps # <<>> /\ Last(steps).type = "Observation") =>
           IF Last(steps).is_final_answer
           THEN Done /\ final_answer = Some(Last(steps).final_answer)
           ELSE /\ ~ Done /\ pc = "orchestration"
                /\ context.retry_keywords = Last(steps).retry_keywords

(***************************************************************************)
(* Retry keywords                                                          *)
(***************************************************************************)
\* C37: the retry keywords Observation proposes after judging a search insufficient
\* are alternative keywords: the proposed list is never equal to the keyword list of
\* the search it has just judged, so two consecutive iterations of one run never
\* execute the same search
C37_RetryKeywordsAreNew ==
    /\ \A j \in 1..Len(steps) :
           (ObservesResults(j) /\ steps[j].needs_retry) =>
               steps[j].retry_keywords # steps[j - 1].search_keywords
    /\ \A i, j \in 1..Len(steps) :
           ( /\ i < j /\ ExecutedSearch(i) /\ ExecutedSearch(j)
             /\ IterationOfStep(j) = IterationOfStep(i) + 1 ) =>
               steps[i].search_keywords # steps[j].search_keywords

(***************************************************************************)
(* safe_agent_call (timeout_wrapper.py): the caller submits _agent_call to *)
(* a ThreadPoolExecutor of one worker inside a with block and waits for    *)
(* the future with a timeout.  driver is "safe_agent_call"; context holds  *)
(* the arguments, the behaviour of the agent call (seconds it takes, or    *)
(* hangs; what it does at its end), the seconds elapsed since start_time   *)
(* (clock) and the state of the worker; result is the dictionary the       *)
(* caller is about to return, and pc is "returned" once it has it.         *)
(***************************************************************************)
\* the fallback text, by the branch that produced it (the last branch quotes the
\* query): any(word in query_lower for word in [...]) over the three word lists
generate_timeout_fallback_response(query) ==
    LET query_lower == Lower(query)
        greeting_words ==
            << <<"uC548", "uB155">>, <<"h", "e", "l", "l", "o">>, <<"h", "i">>,
               <<"uBC18", "uAC11">> >>
        investment_words ==
            << <<"uD22C", "uC790">>, <<"i", "n", "v", "e", "s", "t", "m", "e", "n", "t">>,
               <<"uC2B9", "uC778">>, <<"a", "p", "p", "r", "o", "v", "a", "l">> >>
        policy_words ==
            << <<"uC815", "uCC45">>, <<"p", "o", "l", "i", "c", "y">>, <<"uC808", "uCC28">>,
               <<"p", "r", "o", "c", "e", "d", "u", "r", "e">> >>
        AnyWordIn(words) == \E i \in 1..Len(words) : Contains(words[i], query_lower)
    IN  IF AnyWordIn(greeting_words) THEN <<Tok("fallback_greeting", 0)>>
        ELSE IF AnyWordIn(investment_words) THEN <<Tok("fallback_investment", 0)>>
        ELSE IF AnyWordIn(policy_words) THEN <<Tok("fallback_policy", 0)>>
        ELSE <<Tok("fallback_network_timeout", 0)>>

\* the dictionary _agent_call returns: the response of the agent, or the error of
\* the exception it raised, flagged as a timeout when its text names one; content
\* None is the empty text, error is TRUE for an error text and FALSE for None
_agent_call(outcome) ==
    IF outcome = "responds"
    THEN [success |-> TRUE, content |-> <<W>>, error |-> FALSE, timeout |-> FALSE]
    ELSE [success |-> FALSE, content |-> <<>>, error |-> TRUE,
          timeout |-> (outcome = "raises_read_timed_out")]

\* no dictionary yet
NoCallResult == [success |-> FALSE, content |-> <<>>, error |-> FALSE, timeout |-> FALSE]

\* safe_agent_call up to executor.submit(_agent_call): start_time is taken and the
\* worker runs the agent call
InitTimeout ==
    /\ driver = "safe_agent_call"
    /\ config = [kb_id |-> NoKb, max_iterations |-> CDK_max_iterations, index |-> "any"]
    /\ \E q \in { Q_hello, Q_company,
                  <<"i", "n", "v", "e", "s", "t", "m", "e", "n", "t", " ", "p", "o", "l", "i", "c", "y">>,
                  <<"P", "o", "l", "i", "c", "y", "?">> },
          t \in 1..3,
          agent \in { [seconds |-> s, hangs |-> FALSE, outcome |-> o] :
                          s \in 1..4,
                          o \in { "responds", "raises_read_timed_out", "raises" } }
                    \cup { [seconds |-> 0, hangs |-> TRUE, outcome |-> "responds"] } :
          context = [ fn |-> "safe_agent_call", query |-> q, timeout_seconds |-> t,
                      agent |-> agent, clock |-> 0, worker |-> "running",
                      worker_result |-> NoCallResult ]
    /\ steps = <<>>
    /\ pc = "future_result"
    /\ current_iteration = 0
    /\ safety_controller = SafetyController(CDK_max_iterations)
    /\ final_answer = None
    /\ termination_reason = NoReason
    /\ result = NoCallResult

\* one second passes while the worker runs the agent call: not past the end of the
\* agent call, not past the timeout while the caller waits in future.result, and
\* one second past the timeout when the agent call hangs
SecondPasses ==
    /\ driver = "safe_agent_call" /\ pc # "returned"
    /\ context.worker = "running"
    /\ IF context.agent.hangs THEN context.clock <= context.timeout_seconds
       ELSE context.clock < context.agent.seconds
    /\ pc = "future_result" => context.clock < context.timeout_seconds
    /\ context' = [context EXCEPT !.clock = @ + 1]
    /\ UNCHANGED << driver, config, steps, pc, current_iteration, safety_controller,
                    final_answer, termination_reason, result >>

\* the worker thread: agent(prompt) returns or raises, and _agent_call returns
AgentCallReturns ==
    /\ driver = "safe_agent_call"
    /\ context.worker = "running" /\ ~ context.agent.hangs
    /\ context.clock = context.agent.seconds
    /\ context' = [context EXCEPT !.worker = "finished",
                                  !.worker_result = _agent_call(context.agent.outcome)]
    /\ UNCHANGED << driver, config, steps, pc, current_iteration, safety_controller,
                    final_answer, termination_reason, result >>

\* future.result(timeout=timeout_seconds) returns the dictionary of the worker; the
\* caller sets its key processing_time and goes to its return statement
FutureResultReturns ==
    /\ driver = "safe_agent_call" /\ pc = "future_result"
    /\ context.worker = "finished"
    /\ result' = context.worker_result @@ ("processing_time" :> context.clock)
    /\ pc' = "executor_exit"
    /\ UNCHANGED << driver, config, context, steps, current_iteration, safety_controller,
                    final_answer, termination_reason >>

\* future.result raises FutureTimeoutError: the timeout expired with the agent call
\* still running, and the caller goes to the return statement of the handler
FutureResultTimesOut ==
    /\ driver = "safe_agent_call" /\ pc = "future_result"
    /\ context.worker = "running"
    /\ context.clock = context.timeout_seconds
    /\ result' = [ success |-> FALSE,
                   content |-> generate_timeout_fallback_response(context.query),
                   error |-> TRUE, timeout |-> TRUE, fallback |-> TRUE,
                   processing_time |-> context.clock ]
    /\ pc' = "executor_exit"
    /\ UNCHANGED << driver, config, context, steps, current_iteration, safety_controller,
                    final_answer, termination_reason >>

\* the return statement leaves the with block: ThreadPoolExecutor.__exit__ calls
\* shutdown(wait=True), which joins the worker thread, and then the caller has
\* the result
ExecutorExit ==
    /\ driver = "safe_agent_call" /\ pc = "executor_exit"
    /\ context.worker = "finished"
    /\ pc' = "returned"
    /\ UNCHANGED << driver, config, context, steps, current_iteration, safety_controller,
                    final_answer, termination_reason, result >>

TimeoutNext ==
    \/ SecondPasses
    \/ AgentCallReturns
    \/ FutureResultReturns
    \/ FutureResultTimesOut
    \/ ExecutorExit

SpecTimeout == InitTimeout /\ [][TimeoutNext]_vars

\* the caller holds the timeout fallback result
TimedOut ==
    /\ driver = "safe_agent_call"
    /\ result.timeout
    /\ "fallback" \in DOMAIN result /\ result.fallback

\* C38: when the agent call has not completed when the timeout expires,
\* safe_agent_call returns the timeout fallback result (success false, timeout true,
\* fallback content) to its caller without waiting for the agent call to finish:
\* the caller is not held past the timeout, and the result returned is the fallback
\* result whatever the worker does later
C38_TimeoutReturnsWithoutWaiting ==
    TimedOut =>
        /\ context.clock <= context.timeout_seconds
        /\ ~ result.success
        /\ result.content = generate_timeout_fallback_response(context.query)
        /\ result.processing_time = context.timeout_seconds

(***************************************************************************)
(* The Safety Controller as an object: a controller is built and its       *)
(* methods are called in any order with any arguments.  driver is          *)
(* "controller"; context holds the last call and its arguments, result     *)
(* what should_continue returned, and pc is "called" once a method was     *)
(* called.                                                                 *)
(***************************************************************************)
\* the largest error_count the calls of record_error are followed to
MaxErrorCount == 4

\* SafetyController(max_iterations)
InitController ==
    /\ driver = "controller"
    /\ \E m \in ConfiguredMaxIterations :
           /\ config = [kb_id |-> NoKb, max_iterations |-> m, index |-> "any"]
           /\ safety_controller = SafetyController(m)
    /\ context = [ fn |-> "__init__", iteration |-> 0, action_type |-> "",
                   search_keywords |-> <<>> ]
    /\ steps = <<>>
    /\ pc = "built"
    /\ current_iteration = 0
    /\ final_answer = None
    /\ termination_reason = NoReason
    /\ result = [continue |-> TRUE, reason |-> ""]

\* should_continue(current_iteration, action_result): an iteration below the limit or
\* at it; an action_result without keys, or one with a type and a keyword list
Controller_should_continue ==
    /\ driver = "controller"
    /\ \E iteration \in { 1, safety_controller.max_iterations },
          action_result \in
              { [type |-> "unknown", search_keywords |-> <<>>],
                [type |-> "Action", search_keywords |-> <<Kw1, Kw2>>],
                [type |-> "Action", search_keywords |-> <<Kw2, Kw3>>],
                [type |-> "Action", search_keywords |-> <<Kw1, Kw2, Kw3>>],
                [type |-> "Action", search_keywords |-> <<Kw3, Kw2, Kw1>>] } :
          LET check == should_continue(safety_controller, iteration, action_result.type,
                                       action_result.search_keywords)
          IN  /\ safety_controller' = check.sc
              /\ result' = [continue |-> check.continue, reason |-> check.reason]
              /\ context' = [ fn |-> "should_continue", iteration |-> iteration,
                              action_type |-> action_result.type,
                              search_keywords |-> action_result.search_keywords ]
    /\ pc' = "called"
    /\ UNCHANGED << driver, config, steps, current_iteration, final_answer,
                    termination_reason >>

Controller_record_error ==
    /\ driver = "controller"
    /\ safety_controller.error_count < MaxErrorCount
    /\ safety_controller' = record_error(safety_controller)
    /\ context' = [ fn |-> "record_error", iteration |-> 0, action_type |-> "",
                    search_keywords |-> <<>> ]
    /\ pc' = "called"
    /\ UNCHANGED << driver, config, steps, current_iteration, final_answer,
                    termination_reason, result >>

Controller_reset_error_count ==
    /\ driver = "controller"
    /\ safety_controller' = reset_error_count(safety_controller)
    /\ context' = [ fn |-> "reset_error_count", iteration |-> 0, action_type |-> "",
                    search_keywords |-> <<>> ]
    /\ pc' = "called"
    /\ UNCHANGED << driver, config, steps, current_iteration, final_answer,
                    termination_reason, result >>

ControllerNext ==
    \/ Controller_should_continue
    \/ Controller_record_error
    \/ Controller_reset_error_count

SpecController == InitController /\ [][ControllerNext]_vars

\* the last call was should_continue
CalledShouldContinue == driver = "controller" /\ context.fn = "should_continue"

\* the last call of should_continue stopped with the reason
StoppedWith(reason) == CalledShouldContinue /\ ~ result.continue /\ result.reason = reason

\* the number of times the signature at position i occurs in the history
OccurrencesInHistory(i) ==
    Cardinality({ j \in 1..Len(safety_controller.repeated_actions) :
                    safety_controller.repeated_actions[j]
                        = safety_controller.repeated_actions[i] })

SignatureHistoryBounded ==
    \A i \in 1..Len(safety_controller.repeated_actions) : OccurrencesInHistory(i) <= 2

\* this step is a call of should_continue that stops by rule 1, 2 or 3
StopsByRule123 ==
    /\ context'.fn = "should_continue"
    /\ ~ result'.continue
    /\ result'.reason \in { "max_iterations", "max_errors", "keyword_repetition" }

\* C39: in every reachable state of a Safety Controller no action signature occurs
\* more than 2 times in the signature history; from one call to the next the
\* used-keyword set and the signature history only grow; and a call of
\* should_continue that stops by rule 1, 2 or 3 leaves both unchanged
C39_ControllerStateOnlyGrows ==
    /\ [] SignatureHistoryBounded
    /\ [][ /\ safety_controller.used_keywords \subseteq safety_controller'.used_keywords
           /\ IsPrefix(safety_controller.repeated_actions,
                       safety_controller'.repeated_actions)
           /\ StopsByRule123 =>
                  /\ safety_controller'.used_keywords = safety_controller.used_keywords
                  /\ safety_controller'.repeated_actions
                         = safety_controller.repeated_actions ]_vars

\* a controller with a signature twice in its history and keywords in its used set,
\* whose last call was stopped by the keyword-repetition rule
C39_Witness ==
    /\ StoppedWith("keyword_repetition")
    /\ safety_controller.used_keywords # {}
    /\ \E i \in 1..Len(safety_controller.repeated_actions) : OccurrencesInHistory(i) = 2
====
